---- MODULE Spec2Model ----
(***************************************************************************)
(* PRISM scattering-matrix reduction engine of abTEM                       *)
(* (abtem/waves/prism.py, abtem/waves/scan.py).                           *)
(*                                                                         *)
(* Conventions of the model                                                *)
(*  - Lengths are exact rationals <<n, d>> in lowest terms (d > 0); the    *)
(*    float32 rounding of numpy is not modelled.                           *)
(*  - An n-dimensional array is a function from 0-based index tuples to    *)
(*    its entries; a slice is a 0-based half-open pair <<start, stop>>.    *)
(*  - Python's None is the empty tuple <<>>; an optional int n is <<n>>.   *)
(***************************************************************************)
EXTENDS Integers, Sequences, FiniteSets, TLC

VARIABLES smat, scan, args, pc, batches, meas, hist, out

vars == <<smat, scan, args, pc, batches, meas, hist, out>>

None == <<>>

(***************************************************************************)
(* Bounds of the model                                                     *)
(***************************************************************************)
MaxScanGpts == 3
MaxEnsemble == 2
MaxCustom == 2
NumDetectors == 2

GptsChoices == {<<4, 6>>}
PprChoices == {None, <<1>>, <<4>>}
SamplingChoices == {1, 2}
StartChoices == {<<0, 0>>, <<1, 3>>}
StepChoices == {1, 2}
InterpolationChoices == {<<1, 1>>, <<2, 2>>, <<1, 2>>, <<2, 1>>}
PartitionChoices == {None, <<0>>, <<1>>}

(***************************************************************************)
(* Arithmetic                                                              *)
(***************************************************************************)
Abs(n) == IF n < 0 THEN -n ELSE n

Min2(a, b) == IF a <= b THEN a ELSE b

Max2(a, b) == IF a >= b THEN a ELSE b

SetMin(S) == CHOOSE m \in S : \A x \in S : m <= x

SetMax(S) == CHOOSE m \in S : \A x \in S : m >= x

RECURSIVE GCD(_, _)
GCD(a, b) == IF b = 0 THEN a ELSE GCD(b, a % b)

\* the rational n/d (d > 0) in lowest terms
Rat(n, d) == LET g == GCD(Abs(n), d) IN <<n \div g, d \div g>>

\* numpy rint / round of the rational n/d (d > 0): to nearest, ties to even
RintDiv(n, d) ==
    LET q == n \div d
        r == n % d
    IN  IF 2 * r < d THEN q
        ELSE IF 2 * r > d THEN q + 1
        ELSE IF q % 2 = 0 THEN q ELSE q + 1

\* int(np.floor(np.sqrt(n)))
ISqrt(n) == SetMax({k \in 0..n : k * k <= n})

\* int(np.round(np.sqrt(n))): sqrt(n) is never an exact tie for integer n
RoundSqrt(n) == SetMin({k \in 0..n : 4 * n <= (2 * k + 1) * (2 * k + 1)})

\* index tuples of an array of the given shape (rank 1, 2 or 3)
IndexSet(shape) ==
    CASE Len(shape) = 1 -> {<<i>> : i \in 0..(shape[1] - 1)}
      [] Len(shape) = 2 -> {<<i, j>> : i \in 0..(shape[1] - 1), j \in 0..(shape[2] - 1)}
      [] Len(shape) = 3 -> {<<i, j, k>> : i \in 0..(shape[1] - 1), j \in 0..(shape[2] - 1),
                                          k \in 0..(shape[3] - 1)}

(***************************************************************************)
(* abtem.core.utils: subdivide_into_chunks, generate_chunks                *)
(***************************************************************************)
\* number of chunks of at most `chunks` items
NumChunksFor(n, chunks) == (n + ((-n) % chunks)) \div chunks

\* sizes of num_chunks nearly equal chunks of n items, the larger ones first
SubdivideIntoChunks(n, num_chunks) ==
    LET pp == n \div num_chunks
        r == n % num_chunks
    IN  [k \in 1..num_chunks |-> IF k <= r THEN pp + 1 ELSE pp]

\* np.cumsum with a leading 0: S[k] is the start of chunk k (1-based)
ChunkStart(sizes, k) ==
    LET RECURSIVE Sum(_)
        Sum(m) == IF m = 0 THEN 0 ELSE sizes[m] + Sum(m - 1)
    IN  Sum(k - 1)

\* generate_chunks(n, chunks=c): the <<start, stop>> pairs in order
GenerateChunks(n, chunks) ==
    LET sizes == SubdivideIntoChunks(n, NumChunksFor(n, chunks))
    IN  [k \in 1..Len(sizes) |-> <<ChunkStart(sizes, k), ChunkStart(sizes, k) + sizes[k]>>]

(***************************************************************************)
(* abtem.core.grid.Grid and numpy.linspace, as the scans use them          *)
(***************************************************************************)
\* np.linspace's divisor: num - 1 with the endpoint, num without
LinspaceDiv(num, endpoint) == IF endpoint THEN num - 1 ELSE num

\* np.linspace(start, end, num, endpoint)[k], k 0-based; [start] when num = 1
Linspace(start, end, num, endpoint, k) ==
    LET div == LinspaceDiv(num, endpoint)
    IN  IF div = 0 THEN Rat(start, 1)
        ELSE Rat(start * div + k * (end - start), div)

\* Grid.sampling of one axis: extent / gpts, or extent / (gpts - 1) with the
\* endpoint (exact for the scans the model draws)
GridSampling(extent, gpts, endpoint) == extent \div LinspaceDiv(gpts, endpoint)

(***************************************************************************)
(* scan.py: GridScan, CustomScan, LineScan                                 *)
(***************************************************************************)
\* GridScan(start, end, gpts, endpoint) with a 2-tuple endpoint
GridScan(start, end, gpts, endpoint) ==
    [kind |-> "grid", start |-> start, end |-> end, gpts |-> gpts, endpoint |-> endpoint]

\* CustomScan(positions) for a list of <<x, y>>: the array of shape (n, 2),
\* kept as the sequence of its positions; shape is positions.shape[:-1]
CustomScan(positions) ==
    [kind |-> "custom", positions |-> positions, shape |-> <<Len(positions)>>]

\* CustomScan(positions) for an array of shape (m, n, 2) given as m rows of n
\* positions: the positions are kept in row-major order
StackedCustomScan(rows) ==
    LET n == Len(rows[1])
    IN  [kind |-> "custom",
         positions |-> [k \in 1..(Len(rows) * n) |-> rows[((k - 1) \div n) + 1][((k - 1) % n) + 1]],
         shape |-> <<Len(rows), n>>]

\* LineScan(start, end, gpts, endpoint); its 1-dimensional Grid holds gpts and
\* endpoint as 1-tuples; margin has its default 0
LineScan(start, end, gpts, endpoint) ==
    [kind |-> "line", start |-> start, end |-> end, gpts |-> gpts, endpoint |-> endpoint,
     margin |-> 0]

\* GridScan.sampling (from its Grid)
ScanSampling(s) ==
    [a \in 1..2 |-> GridSampling(s.end[a] - s.start[a], s.gpts[a], s.endpoint[a])]

\* the shape property of each scan variant
ScanShape(s) ==
    CASE s.kind = "grid" -> s.gpts
      [] s.kind = "custom" -> s.shape
      [] s.kind = "line" -> s.gpts

\* GridScan.limits / CustomScan.limits as the two corner positions
ScanLimits(s) ==
    IF s.kind = "grid"
    THEN <<  <<Rat(s.start[1], 1), Rat(s.start[2], 1)>>,
             <<Rat(s.end[1], 1), Rat(s.end[2], 1)>>  >>
    ELSE LET xs == {s.positions[k][1] : k \in 1..Len(s.positions)}
             ys == {s.positions[k][2] : k \in 1..Len(s.positions)}
             Less(p, q) == p[1] * q[2] <= q[1] * p[2]
             Lo(S) == CHOOSE m \in S : \A x \in S : Less(m, x)
             Hi(S) == CHOOSE m \in S : \A x \in S : Less(x, m)
         IN  << <<Lo(xs), Lo(ys)>>, <<Hi(xs), Hi(ys)>> >>

\* gridscan_positions(start, end, gpts, endpoint): the meshgrid of two linspaces
gridscan_positions(start, end, gpts, endpoint) ==
    [idx \in IndexSet(gpts) |->
        << Linspace(start[1], end[1], gpts[1], endpoint[1], idx[1]),
           Linspace(start[2], end[2], gpts[2], endpoint[2], idx[2]) >>]

\* linescan_positions inside LineScan.get_positions: both coordinates use
\* gpts[0] and endpoint[0]
linescan_positions(start, end, gpts, endpoint) ==
    [idx \in IndexSet(gpts) |->
        << Linspace(start[1], end[1], gpts[1], endpoint[1], idx[1]),
           Linspace(start[2], end[2], gpts[1], endpoint[1], idx[1]) >>]

\* get_positions(chunks=None, lazy=False) as an array over the scan shape.
\* CustomScan.get_positions returns the one-element list [self._positions];
\* its element is the array modelled here.
GetPositions(s) ==
    CASE s.kind = "grid" -> gridscan_positions(s.start, s.end, s.gpts, s.endpoint)
      [] s.kind = "custom" ->
             [idx \in IndexSet(s.shape) |->
                 s.positions[IF Len(s.shape) = 1 THEN idx[1] + 1
                             ELSE idx[1] * s.shape[2] + idx[2] + 1]]
      [] s.kind = "line" -> linescan_positions(s.start, s.end, s.gpts, s.endpoint)

\* whether an index tuple lies inside an array of the given shape
InShape(idx, shape) == \A a \in 1..Len(shape) : 0 <= idx[a] /\ idx[a] < shape[a]

\* whether an index tuple is selected by a tuple of slices
InSlices(idx, indices) ==
    \A a \in 1..Len(indices) : indices[a][1] <= idx[a] /\ idx[a] < indices[a][2]

\* shape of the region a tuple of slices selects
SliceShape(indices) == [a \in 1..Len(indices) |-> indices[a][2] - indices[a][1]]

\* array[indices] for in-range slices: the sub-array, re-indexed from 0
SliceArray(array, indices) ==
    [loc \in IndexSet(SliceShape(indices)) |->
        array[[a \in 1..Len(indices) |-> indices[a][1] + loc[a]]]]

\* one (indices, positions) pair of generate_positions
Batch(indices, shape, positions) ==
    [indices |-> indices, shape |-> shape, positions |-> positions]

\* generate_positions pairing every batch of positions with the first slice
\* of the second axis
GridGenerateFirstColumn(s, chunks) ==
    LET c == ISqrt(chunks)
        positions == GetPositions(s)
        cx == GenerateChunks(s.gpts[1], c)
        cy == GenerateChunks(s.gpts[2], c)
    IN  [m \in 1..(Len(cx) * Len(cy)) |->
            LET kx == ((m - 1) \div Len(cy)) + 1
                ky == ((m - 1) % Len(cy)) + 1
                indices == <<cx[kx], cy[1]>>
            IN  Batch(indices, SliceShape(<<cx[kx], cy[ky]>>),
                      SliceArray(positions, <<cx[kx], cy[ky]>>))]

\* GridScan.generate_positions(chunks) for a number: the pairs in yield order
GridGeneratePositions(s, chunks) ==
    LET c == ISqrt(chunks)
        positions == GetPositions(s)
        cx == GenerateChunks(s.gpts[1], c)
        cy == GenerateChunks(s.gpts[2], c)
    IN  [m \in 1..(Len(cx) * Len(cy)) |->
            LET kx == ((m - 1) \div Len(cy)) + 1
                ky == ((m - 1) % Len(cy)) + 1
                indices == <<cx[kx], cy[ky]>>
            IN  Batch(indices, SliceShape(indices), SliceArray(positions, indices))]

\* CustomScan.generate_positions(chunks): one pair, slice(0, 1) with every position
CustomGeneratePositions(s, chunks) ==
    << Batch(<< <<0, 1>> >>, s.shape, GetPositions(s)) >>

\* which scan variants define generate_positions (LineScan and AbstractScan do not)
HasGeneratePositions(s) == s.kind \in {"grid", "custom"}

\* scan.generate_positions(chunks=...) for the variants that define it
GeneratePositions(s, chunks) ==
    IF s.kind = "grid" THEN GridGeneratePositions(s, chunks)
    ELSE CustomGeneratePositions(s, chunks)

(***************************************************************************)
(* prism.py: SMatrixArray and its derived views                            *)
(***************************************************************************)
\* the array a build stores: every grid point carries its own column of
\* plane-wave amplitudes, named here by the grid point's flat index
BuiltArray(gpts) == [idx \in IndexSet(gpts) |-> idx[1] * gpts[2] + idx[2]]

\* SMatrixArray(array, ..., interpolation, partitions, sampling, crop_offset,
\* uncropped_gpts); gpts is array.shape[-2:]
SMatrixArray(array, gpts, interpolation, partitions, sampling, crop_offset, uncropped_gpts) ==
    [array |-> array, gpts |-> gpts, interpolation |-> interpolation,
     partitions |-> partitions, sampling |-> sampling,
     crop_offset |-> crop_offset, uncropped_gpts |-> uncropped_gpts]

\* SMatrixArray.uncropped_gpts
UncroppedGpts(s) == IF s.uncropped_gpts = None THEN s.gpts ELSE s.uncropped_gpts

\* SMatrixArray.interpolated_gpts
InterpolatedGpts(s) ==
    << UncroppedGpts(s)[1] \div s.interpolation[1],
       UncroppedGpts(s)[2] \div s.interpolation[2] >>

\* prism_utils.wrapped_crop_2d(array, corner, size): a periodic crop
wrapped_crop_2d(array, gpts, corner, size) ==
    [idx \in IndexSet(size) |->
        array[<< (corner[1] + idx[1]) % gpts[1], (corner[2] + idx[2]) % gpts[2] >>]]

\* xp.rint(position / sampling - offset) for one coordinate
CornerOf(p, sampling, offset) ==
    RintDiv(p[1] - offset * sampling * p[2], sampling * p[2])

\* _minimum_crop without its line 85: the corners stay absolute
MinimumCropAbsolute(positions, sampling, shape) ==
    LET offset == <<shape[1] \div 2, shape[2] \div 2>>
        corners == [idx \in DOMAIN positions |->
                        [a \in 1..2 |-> CornerOf(positions[idx][a], sampling[a], offset[a])]]
        crop_corner == [a \in 1..2 |-> SetMin({corners[idx][a] : idx \in DOMAIN positions})]
    IN  [crop_corner |-> crop_corner,
         size |-> [a \in 1..2 |->
                      SetMax({corners[idx][a] + shape[a] : idx \in DOMAIN positions})
                      - crop_corner[a]],
         corners |-> corners]

\* _minimum_crop with the size taken between the lowest and the highest
\* corner, the window left out
MinimumCropBetweenCorners(positions, sampling, shape) ==
    LET offset == <<shape[1] \div 2, shape[2] \div 2>>
        corners == [idx \in DOMAIN positions |->
                        [a \in 1..2 |-> CornerOf(positions[idx][a], sampling[a], offset[a])]]
        crop_corner == [a \in 1..2 |-> SetMin({corners[idx][a] : idx \in DOMAIN positions})]
        size == [a \in 1..2 |->
                    SetMax({corners[idx][a] : idx \in DOMAIN positions}) - crop_corner[a]]
    IN  [crop_corner |-> crop_corner,
         size |-> size,
         corners |-> [idx \in DOMAIN positions |->
                         [a \in 1..2 |-> corners[idx][a] - crop_corner[a]]]]

\* _minimum_crop(positions, sampling, shape) for an array of positions
MinimumCrop(positions, sampling, shape) ==
    LET offset == <<shape[1] \div 2, shape[2] \div 2>>
        corners == [idx \in DOMAIN positions |->
                        [a \in 1..2 |-> CornerOf(positions[idx][a], sampling[a], offset[a])]]
        crop_corner == [a \in 1..2 |-> SetMin({corners[idx][a] : idx \in DOMAIN positions})]
        size == [a \in 1..2 |->
                    SetMax({corners[idx][a] + shape[a] : idx \in DOMAIN positions})
                    - crop_corner[a]]
    IN  [crop_corner |-> crop_corner,
         size |-> size,
         corners |-> [idx \in DOMAIN positions |->
                         [a \in 1..2 |-> corners[idx][a] - crop_corner[a]]]]

\* _minimum_crop given a scan: the positions are the scan's limits
MinimumCropOfScan(s, sampling, shape) ==
    LET lim == ScanLimits(s)
    IN  MinimumCrop([idx \in IndexSet(<<2>>) |-> lim[idx[1] + 1]], sampling, shape)

\* lines 522-525 without their conditions: the bounding box on both axes
CropBoxEveryAxis(s, crop) == [corner |-> crop.crop_corner, size |-> crop.size]

\* the corner and size crop_to_positions uses: only axes with interpolation > 1
CropBox(s, crop) ==
    [corner |-> [a \in 1..2 |-> IF s.interpolation[a] > 1 THEN crop.crop_corner[a] ELSE 0],
     size |-> [a \in 1..2 |-> IF s.interpolation[a] > 1 THEN crop.size[a] ELSE s.gpts[a]]]

\* SMatrixArray.crop_to_positions(scan)
crop_to_positions(s, positions) ==
    IF s.interpolation = <<1, 1>>
    THEN [s EXCEPT !.crop_offset = <<0, 0>>, !.uncropped_gpts = UncroppedGpts(s)]
    ELSE LET box == CropBox(s, MinimumCropOfScan(positions, s.sampling, InterpolatedGpts(s)))
         IN  [s EXCEPT !.array = wrapped_crop_2d(s.array, s.gpts, box.corner, box.size),
                       !.gpts = box.size,
                       !.crop_offset = box.corner,
                       !.uncropped_gpts = UncroppedGpts(s)]

(***************************************************************************)
(* prism.py: the reduction engine                                          *)
(***************************************************************************)
\* a result that is either an error (a 1-tuple with the exception's name) or
\* a value
Ok(value) == [error |-> None, value |-> value]

Raise(name) == [error |-> <<name>>, value |-> None]

\* `if self.partitions:` -- Python truthiness of None / int
Truthy(partitions) == partitions # None /\ partitions[1] # 0

\* the basis _generate_waves computes before its loop (lines 725-744)
BasisOf(s) == IF Truthy(s.partitions) THEN "beamlet_basis" ELSE "ctf_aperture"

\* the routine _generate_waves applies to each batch (lines 747-750)
RoutineOf(s) == IF s.partitions = None THEN "_reduce" ELSE "_reduce_partitioned"

\* batch_crop_2d(array, corners, new_shape) for one position: the window at
\* `corner`; an index outside the array is an IndexError, entry -1 here
batch_crop_2d(array, size, corner, new_shape) ==
    [idx \in IndexSet(new_shape) |->
        LET at == <<corner[1] + idx[1], corner[2] + idx[2]>>
        IN  IF InShape(at, size) THEN array[at] ELSE -1]

\* positions - crop_offset * sampling
OffsetPositions(s, positions) ==
    [idx \in DOMAIN positions |->
        [a \in 1..2 |->
            Rat(positions[idx][a][1] - s.crop_offset[a] * s.sampling[a] * positions[idx][a][2],
                positions[idx][a][2])]]

\* one exit wave: the routine that made it, the basis it used, the
\* per-position coefficients' argument and the grid points it is built from
Wave(routine, basis, key, win) ==
    [routine |-> routine, basis |-> basis, key |-> key, win |-> win]

\* _reduce(s_matrix, basis, positions, axes_metadata): one wave per position
reduce_dense(s, basis, batch, num_axes) ==
    IF num_axes # Len(batch.shape) THEN Raise("RuntimeError")
    ELSE IF s.gpts # InterpolatedGpts(s)
    THEN LET crop == MinimumCrop(OffsetPositions(s, batch.positions), s.sampling,
                                 InterpolatedGpts(s))
             array == wrapped_crop_2d(s.array, s.gpts, crop.crop_corner, crop.size)
         IN  Ok([idx \in DOMAIN batch.positions |->
                    Wave("_reduce", basis, batch.positions[idx],
                         batch_crop_2d(array, crop.size, crop.corners[idx],
                                       InterpolatedGpts(s)))])
    ELSE Ok([idx \in DOMAIN batch.positions |->
                Wave("_reduce", basis, batch.positions[idx], s.array)])

\* the integer pixel shift of _reduce_partitioned for one coordinate
ShiftOf(s, p, a) ==
    RintDiv(p[1], s.sampling[a] * p[2]) - s.crop_offset[a] - (InterpolatedGpts(s)[a] \div 2)

\* prism_utils.reduce_beamlets_nearest_no_interpolation for one position: the
\* beamlets are placed at the integer shift, so the wave is built from the
\* window of the array at that shift
reduce_beamlets_nearest_no_interpolation(s, shift) ==
    wrapped_crop_2d(s.array, s.gpts, shift, InterpolatedGpts(s))

\* _reduce_partitioned(s_matrix, basis, positions, axes_metadata)
reduce_partitioned(s, basis, batch, num_axes) ==
    IF num_axes # Len(batch.shape) THEN Raise("RuntimeError")
    ELSE Ok([idx \in DOMAIN batch.positions |->
                LET shift == [a \in 1..2 |-> ShiftOf(s, batch.positions[idx][a], a)]
                IN  Wave("_reduce_partitioned", basis, shift,
                         reduce_beamlets_nearest_no_interpolation(s, shift))])

\* len(scan.axes_metadata)
NumAxesMetadata(s) == IF s.kind = "grid" THEN 2 ELSE 1

\* the body of the loop of _generate_waves for one batch (lines 746-751)
GenerateWave(s, sc, batch) ==
    IF RoutineOf(s) = "_reduce"
    THEN reduce_dense(s, BasisOf(s), batch, NumAxesMetadata(sc))
    ELSE reduce_partitioned(s, BasisOf(s), batch, NumAxesMetadata(sc))

\* _validate_positions_per_reduction
ValidatePositionsPerReduction(ppr) == IF ppr = None THEN 300 ELSE ppr[1]

\* detector.allocate_measurement(meta_waves, scan): zeros over scan.shape;
\* an entry is the sequence of contributions written or added to it
AllocateMeasurement(sc) == [idx \in IndexSet(ScanShape(sc)) |-> <<>>]

\* detector j's measurement of one wave of ensemble member `member`
Detect(j, member, wave) == [detector |-> j, member |-> member, wave |-> wave]

\* array[indices] = value (accumulate FALSE) or array[indices] += value
\* (accumulate TRUE) for a value of shape value_shape; shapes that differ do
\* not broadcast here and raise ValueError
AssignSlice(array, shape, indices, value, value_shape, accumulate) ==
    LET region_shape == [a \in 1..Len(shape) |->
                            Max2(0, Min2(indices[a][2], shape[a]) - Min2(indices[a][1], shape[a]))]
    IN  IF region_shape # value_shape THEN Raise("ValueError")
        ELSE Ok([idx \in DOMAIN array |->
                    IF InSlices(idx, indices)
                    THEN LET v == value[[a \in 1..Len(shape) |-> idx[a] - indices[a][1]]]
                         IN  IF accumulate THEN Append(array[idx], v) ELSE <<v>>
                    ELSE array[idx]])

\* whether reduce_s_matrix allocates on this pass of its loop (line 250)
AllocatesAt(i) == i = 0

\* one pass of the loop of reduce_s_matrix (lines 248-255): `measurements` is
\* None or one array per detector
ReduceStep(s, num_detectors, member, sc, i, measurements, batch) ==
    LET waves == GenerateWave(s, sc, batch)
        allocated == IF AllocatesAt(i)
                     THEN [j \in 1..num_detectors |-> AllocateMeasurement(sc)]
                     ELSE measurements
        written == [j \in 1..num_detectors |->
                       AssignSlice(allocated[j], ScanShape(sc), batch.indices,
                                   [idx \in DOMAIN waves.value |-> Detect(j, member, waves.value[idx])],
                                   batch.shape, FALSE)]
    IN  IF waves.error # None THEN Raise(waves.error[1])
        ELSE IF allocated = None THEN Raise("TypeError")
        ELSE IF \E j \in 1..num_detectors : written[j].error # None THEN Raise("ValueError")
        ELSE Ok([j \in 1..num_detectors |-> written[j].value])

\* reduce_s_matrix(s_matrix, detectors, scan, ctf, positions_per_reduction) run
\* to its end over the batches of a generator
RECURSIVE ReduceLoop(_, _, _, _, _, _, _)
\* the loop after one pass with result r: an exception ends it
ReduceRest(s, num_detectors, member, sc, i, r, todo) ==
    IF r.error # None THEN r
    ELSE ReduceLoop(s, num_detectors, member, sc, i + 1, r.value, Tail(todo))

ReduceLoop(s, num_detectors, member, sc, i, measurements, todo) ==
    IF todo = <<>> THEN Ok(measurements)
    ELSE ReduceRest(s, num_detectors, member, sc, i,
                    ReduceStep(s, num_detectors, member, sc, i, measurements, Head(todo)),
                    todo)

reduce_s_matrix(s, num_detectors, member, sc, ppr) ==
    ReduceLoop(s, num_detectors, member, sc, 0, None,
               GeneratePositions(sc, ValidatePositionsPerReduction(ppr)))

\* allocate_measurements(meta_waves, scan, detectors, potential) of the eager
\* SMatrix.scan: one array per detector, with a leading frozen-phonon axis
\* unless the detector averages the ensemble
AllocateMeasurements(sc, num_detectors, num_members, ensemble_mean) ==
    [j \in 1..num_detectors |->
        IF ensemble_mean THEN AllocateMeasurement(sc)
        ELSE [idx \in IndexSet(<<num_members>> \o ScanShape(sc)) |-> <<>>]]

\* an allocation for every ensemble member
AllocatesForEveryMember(i) == TRUE

\* whether the eager SMatrix.scan allocates for ensemble member i (line 1236)
ScanAllocatesAt(i) == i = 0

\* one pass of the inner loop of SMatrix.scan (lines 1240-1251): every detector
\* adds its measurement of the batch at (i,) + indices or at indices
ScanStep(s, num_detectors, num_members, member, sc, ensemble_mean, measurements, batch) ==
    LET waves == GenerateWave(s, sc, batch)
        shape == IF ensemble_mean THEN ScanShape(sc) ELSE <<num_members>> \o ScanShape(sc)
        indices == IF ensemble_mean THEN batch.indices
                   ELSE << <<member, member + 1>> >> \o batch.indices
        value_shape == IF ensemble_mean THEN batch.shape ELSE <<1>> \o batch.shape
        written == [j \in 1..num_detectors |->
                       AssignSlice(measurements[j], shape, indices,
                                   [idx \in IndexSet(value_shape) |->
                                       Detect(j, member,
                                              waves.value[IF ensemble_mean THEN idx ELSE Tail(idx)])],
                                   value_shape, TRUE)]
    IN  IF waves.error # None THEN Raise(waves.error[1])
        ELSE IF \E j \in 1..num_detectors : written[j].error # None THEN Raise("ValueError")
        ELSE Ok([j \in 1..num_detectors |-> written[j].value])

(***************************************************************************)
(* Scan distribution: GridScan.divide and _distribute_reductions           *)
(***************************************************************************)
\* GridScan.divide, lines 447-448: an int divisor <<n>> becomes a 2-tuple
ValidateDivisions(divisions) ==
    IF Len(divisions) = 1
    THEN <<RoundSqrt(divisions[1]), RoundSqrt(divisions[1])>>
    ELSE divisions

\* the sub-scan of block (i, j), 0-based, of GridScan.divide (lines 459-473):
\* start and end are counted from the origin in units of the scan's sampling,
\* and the one `endpoint` flag ends up on both axes
DivideBlock(s, divisions, Nx, Ny, i, j) ==
    LET sampling == ScanSampling(s)
        start == << ChunkStart(Nx, i + 1) * sampling[1], ChunkStart(Ny, j + 1) * sampling[2] >>
        lastx == i + 1 = divisions[1]
        lasty == j + 1 = divisions[2]
        endpoint == IF lasty THEN s.endpoint[2]
                    ELSE IF lastx THEN s.endpoint[1]
                    ELSE FALSE
        endx == start[1] + Nx[i + 1] * sampling[1]
                - (IF lastx /\ s.endpoint[1] THEN sampling[1] ELSE 0)
        endy == start[2] + Ny[j + 1] * sampling[2]
                - (IF lasty /\ s.endpoint[2] THEN sampling[2] ELSE 0)
    IN  GridScan(start, <<endx, endy>>, <<Nx[i + 1], Ny[j + 1]>>, <<endpoint, endpoint>>)

\* GridScan.divide(divisions): the list of lists of sub-scans, or the
\* RuntimeError of subdivide_into_chunks for more chunks than positions
divide(s, divisions) ==
    LET d == ValidateDivisions(divisions)
    IN  IF s.gpts[1] < d[1] \/ s.gpts[2] < d[2] THEN Raise("RuntimeError")
        ELSE LET Nx == SubdivideIntoChunks(s.gpts[1], d[1])
                 Ny == SubdivideIntoChunks(s.gpts[2], d[2])
             IN  Ok([i \in 1..d[1] |-> [j \in 1..d[2] |->
                        DivideBlock(s, d, Nx, Ny, i - 1, j - 1)]])

\* [item for sublist in scans for item in sublist]
Flatten(lists) ==
    LET RECURSIVE Cat(_)
        Cat(k) == IF k = 0 THEN <<>> ELSE Cat(k - 1) \o lists[k]
    IN  Cat(Len(lists))

\* an array with its shape
Array(shape, data) == [shape |-> shape, data |-> data]

\* np.concatenate of 2-dimensional arrays along `axis` (1 or 2 here for
\* numpy's 0 or 1): the other axis must agree, or numpy raises ValueError
RECURSIVE Concatenate(_, _)
Concatenate(arrays, axis) ==
    IF Len(arrays) = 1 THEN Ok(arrays[1])
    ELSE LET rest == Concatenate(SubSeq(arrays, 1, Len(arrays) - 1), axis)
             last == arrays[Len(arrays)]
             other == 3 - axis
         IN  IF rest.error # None THEN rest
             ELSE IF rest.value.shape[other] # last.shape[other] THEN Raise("ValueError")
             ELSE LET n == rest.value.shape[axis]
                      shape == [a \in 1..2 |-> IF a = axis THEN n + last.shape[a]
                                               ELSE last.shape[a]]
                  IN  Ok(Array(shape,
                               [idx \in IndexSet(shape) |->
                                   IF idx[axis] < n THEN rest.value.data[idx]
                                   ELSE last.data[[a \in 1..2 |->
                                            IF a = axis THEN idx[a] - n ELSE idx[a]]]]))

\* lst[i:i + division] for i in range(0, len(lst), division)
SplitList(lst, division) ==
    [k \in 1..((Len(lst) + division - 1) \div division) |->
        SubSeq(lst, (k - 1) * division + 1, Min2(k * division, Len(lst)))]

\* the length of the rows _distribute_reductions splits the blocks into
\* (lines 779-780)
RowLength(scan_divisions) == scan_divisions[1]

\* lines 779-783: rows of blocks joined along axis 1, the rows along axis 0
Reassemble(blocks, scan_divisions) ==
    LET rows == SplitList(blocks, RowLength(scan_divisions))
        joined == [k \in 1..Len(rows) |-> Concatenate(rows[k], 2)]
    IN  IF \E k \in 1..Len(rows) : joined[k].error # None THEN Raise("ValueError")
        ELSE Concatenate([k \in 1..Len(rows) |-> joined[k].value], 1)

\* `if not distribute_scan`: False, 0 and () do not distribute
DistributesScan(distribute_scan) ==
    distribute_scan # None /\ (Len(distribute_scan) = 1 => distribute_scan[1] # 0)

\* the first exception among a list of results, or None
FirstError(results) ==
    IF \A k \in DOMAIN results : results[k].error = None THEN None
    ELSE results[CHOOSE k \in DOMAIN results :
                    /\ results[k].error # None
                    /\ \A m \in 1..(k - 1) : results[m].error = None].error

\* a list of results as one result: the first exception or the list of values
Collect(results) ==
    IF FirstError(results) # None THEN Raise(FirstError(results)[1])
    ELSE Ok([k \in DOMAIN results |-> results[k].value])

\* lines 773-787: the blocks' measurements transposed to one list per
\* detector and reassembled; an int divisor has no scan_divisions[0]
ReassembleReductions(reduced, shapes, num_detectors, scan_divisions) ==
    IF reduced.error # None THEN reduced
    ELSE IF Len(scan_divisions) = 1 THEN Raise("TypeError")
    ELSE Collect([j \in 1..num_detectors |->
                     Reassemble([k \in 1..Len(shapes) |->
                                    Array(shapes[k], reduced.value[k][j])],
                                scan_divisions)])

\* lines 757-771: every sub-scan, in flattened order, reduced on the array
\* cropped to it
ReduceBlocks(s, num_detectors, member, divided, scan_divisions, ppr) ==
    IF divided.error # None THEN divided
    ELSE ReassembleReductions(
             Collect([k \in 1..Len(divided.value) |->
                         reduce_s_matrix(crop_to_positions(s, divided.value[k]), num_detectors,
                                         member, divided.value[k], ppr)]),
             [k \in 1..Len(divided.value) |-> ScanShape(divided.value[k])],
             num_detectors, scan_divisions)

\* scan.divide(scan_divisions) flattened (lines 755-757)
DivideFlat(divided) == IF divided.error # None THEN divided ELSE Ok(Flatten(divided.value))

\* SMatrixArray._distribute_reductions for a grid scan: one reassembled array
\* per detector, or the exception raised on the way
distribute_reductions(s, num_detectors, member, sc, scan_divisions, ppr) ==
    ReduceBlocks(s, num_detectors, member, DivideFlat(divide(sc, scan_divisions)),
                 scan_divisions, ppr)

(***************************************************************************)
(* The inputs the model draws                                              *)
(***************************************************************************)
\* a grid scan with start corner `start`, `gpts` positions per axis spaced
\* `step` apart
GridScanOf(start, step, gpts, endpoint) ==
    GridScan(start,
             [a \in 1..2 |-> start[a] + step * LinspaceDiv(gpts[a], endpoint[a])],
             gpts, endpoint)

\* an endpoint needs two positions on its axis
ValidEndpoint(gpts, endpoint) == \A a \in 1..2 : endpoint[a] => gpts[a] >= 2

GridScansWith(endpoints) ==
    LET shapes == {c \in ((1..MaxScanGpts) \X (1..MaxScanGpts)) \X endpoints :
                      ValidEndpoint(c[1], c[2])}
    IN  {GridScanOf(start, step, c[1], c[2]) :
            start \in StartChoices, step \in StepChoices, c \in shapes}

CustomScans ==
    {CustomScan([k \in 1..n |-> <<Rat(k + c, 1), Rat(2 * k, 1)>>]) :
        n \in 1..MaxCustom, c \in {0, 1}}

LineScans == {LineScan(<<0, 0>>, <<2, 2>>, <<2>>, <<TRUE>>)}

\* the S-matrix arrays a build returns: uncropped, offset (0, 0)
BuiltSMatrices ==
    {SMatrixArray(BuiltArray(g), g, interpolation, partitions, <<sampling, sampling>>,
                  <<0, 0>>, None) :
        g \in GptsChoices, interpolation \in InterpolationChoices,
        partitions \in PartitionChoices, sampling \in SamplingChoices}

(***************************************************************************)
(* Spec: SMatrixArray.reduce without scan distribution, and the eager      *)
(* SMatrix.scan, batch by batch                                            *)
(***************************************************************************)
\* the arguments of a call; distribute_scan is None for False, <<n>> for an
\* int and <<dx, dy>> for a tuple; lazy is the lazy argument of scan() and,
\* for reduce(), whether the receiver holds a deferred array
Arguments(paths, members, means) ==
    {[path |-> path, ppr |-> ppr, num_detectors |-> NumDetectors,
      num_members |-> n, ensemble_mean |-> mean, distribute_scan |-> None,
      lazy |-> FALSE] :
        path \in paths, ppr \in PprChoices, n \in members, mean \in means}

\* what has happened since the call: the ensemble member and the batch the
\* loops are at, the measurement allocations of the current reduction, the
\* task graphs built, the S-matrices built eagerly, and whether reduce() has
\* returned deferred measurements
NoHistory ==
    [member |-> 0, i |-> 0, allocs |-> 0, graphs |-> 0, built |-> 0, returned |-> FALSE]

\* reduce() on a 3-dimensional array: _get_s_matrices returns [self]
Init ==
    /\ smat \in BuiltSMatrices
    /\ scan \in GridScansWith({<<FALSE, FALSE>>, <<TRUE, FALSE>>}) \cup CustomScans \cup LineScans
    /\ args \in Arguments({"reduce"}, {1}, {FALSE})
    /\ pc = "call"
    /\ batches = <<>>
    /\ meas = None
    /\ hist = NoHistory
    /\ out = <<>>

\* SMatrixArray.reduce up to its loop over the ensemble (lines 814-820):
\* _validate_positions raises for a LineScan
CallReduce ==
    /\ pc = "call"
    /\ args.path = "reduce"
    /\ pc' = IF scan.kind = "line" THEN "NotImplementedError" ELSE "member"
    /\ UNCHANGED <<smat, scan, args, batches, meas, hist, out>>

\* reduce_s_matrix is entered for the next ensemble member (lines 246-248)
EnterReduceSMatrix ==
    /\ pc = "member"
    /\ args.lazy => hist.returned
    /\ ~DistributesScan(args.distribute_scan)
    /\ meas' = None
    /\ batches' = GeneratePositions(scan, ValidatePositionsPerReduction(args.ppr))
    /\ hist' = [hist EXCEPT !.i = 0, !.allocs = 0]
    /\ pc' = "loop"
    /\ UNCHANGED <<smat, scan, args, out>>

\* one pass of the loop of reduce_s_matrix
ReduceBatch ==
    /\ pc = "loop"
    /\ batches # <<>>
    /\ LET r == ReduceStep(smat, args.num_detectors, hist.member, scan, hist.i, meas,
                           Head(batches))
       IN  IF r.error # None
           THEN /\ pc' = r.error[1]
                /\ UNCHANGED <<meas, batches, hist>>
           ELSE /\ meas' = r.value
                /\ batches' = Tail(batches)
                /\ hist' = [hist EXCEPT !.i = @ + 1,
                                        !.allocs = IF AllocatesAt(hist.i) THEN @ + 1 ELSE @]
                /\ pc' = pc
    /\ UNCHANGED <<smat, scan, args, out>>

\* reduce_s_matrix returns; reduce appends to measurements_ensemble (line 836)
ReturnMeasurements ==
    /\ pc = "loop"
    /\ batches = <<>>
    /\ out' = Append(out, meas)
    /\ hist' = [hist EXCEPT !.member = @ + 1]
    /\ pc' = IF hist.member + 1 < args.num_members THEN "member" ELSE "done"
    /\ UNCHANGED <<smat, scan, args, batches, meas>>

\* SMatrix.scan, eager, up to its loop over the S-matrices (lines 1214-1230)
CallScan ==
    /\ pc = "call"
    /\ args.path = "scan"
    /\ ~args.lazy
    /\ pc' = "smember"
    /\ UNCHANGED <<smat, scan, args, batches, meas, hist, out>>

\* the next S-matrix is built, its wave generator made and, for the first
\* member, the measurements allocated (lines 1231-1238)
ScanMember ==
    /\ pc = "smember"
    /\ meas' = IF ScanAllocatesAt(hist.member)
               THEN AllocateMeasurements(scan, args.num_detectors, args.num_members,
                                         args.ensemble_mean)
               ELSE meas
    /\ hist' = [hist EXCEPT !.i = 0,
                            !.allocs = IF ScanAllocatesAt(hist.member) THEN @ + 1 ELSE @,
                            !.built = @ + 1]
    /\ IF scan.kind = "line"
       THEN /\ pc' = "NotImplementedError"
            /\ UNCHANGED batches
       ELSE /\ pc' = "sloop"
            /\ batches' = GeneratePositions(scan, ValidatePositionsPerReduction(args.ppr))
    /\ UNCHANGED <<smat, scan, args, out>>

\* one pass of the inner loop of SMatrix.scan
ScanBatch ==
    /\ pc = "sloop"
    /\ batches # <<>>
    /\ LET r == ScanStep(smat, args.num_detectors, args.num_members, hist.member, scan,
                         args.ensemble_mean, meas, Head(batches))
       IN  IF r.error # None
           THEN /\ pc' = r.error[1]
                /\ UNCHANGED <<meas, batches, hist>>
           ELSE /\ meas' = r.value
                /\ batches' = Tail(batches)
                /\ hist' = [hist EXCEPT !.i = @ + 1]
                /\ pc' = pc
    /\ UNCHANGED <<smat, scan, args, out>>

\* the wave generator of a member is exhausted (line 1240); after the last
\* member the measurements are returned (lines 1253-1256)
ScanMemberDone ==
    /\ pc = "sloop"
    /\ batches = <<>>
    /\ hist' = [hist EXCEPT !.member = @ + 1]
    /\ IF hist.member + 1 < args.num_members
       THEN pc' = "smember" /\ UNCHANGED out
       ELSE pc' = "done" /\ out' = meas
    /\ UNCHANGED <<smat, scan, args, batches, meas>>

Next ==
    \/ CallReduce
    \/ EnterReduceSMatrix
    \/ ReduceBatch
    \/ ReturnMeasurements

Spec == Init /\ [][Next]_vars

\* a probes-per-reduction value that puts a whole scan into one batch
AllAtOnce == <<(MaxScanGpts + MaxCustom) * (MaxScanGpts + MaxCustom)>>

\* the states in which reduce() has ended with an exception of the reduction
RaisedInReduction == pc \notin {"call", "member", "loop", "done", "NotImplementedError"}

\* C1: whatever probes-per-reduction value groups the positions into
\* batches, a finished reduction holds at every scan index the value that
\* reducing all positions at once puts there, and a reduction that raises,
\* raises what the all-at-once reduction raises
C1_BatchSizeInvariant ==
    /\ pc = "done" =>
           reduce_s_matrix(smat, args.num_detectors, 0, scan, AllAtOnce) = Ok(out[1])
    /\ RaisedInReduction =>
           reduce_s_matrix(smat, args.num_detectors, 0, scan, AllAtOnce).error = <<pc>>

\* a 3 x 3 grid scan reduced one position at a time on a cropped-window array
C1_Witness ==
    /\ pc = "done"
    /\ scan.kind = "grid" /\ scan.gpts = <<3, 3>> /\ scan.start = <<1, 3>>
    /\ args.ppr = <<1>>
    /\ smat.interpolation = <<2, 2>> /\ smat.partitions = None
    /\ \A idx \in IndexSet(<<3, 3>>) : Len(out[1][1][idx]) = 1

\* C10: every wave written to a measurement comes from a basis and a routine
\* of one mode: the CTF-aperture basis with _reduce when the array has no
\* partition count (None), the beamlet basis with _reduce_partitioned when it
\* has one (0 or a positive int)
C10_ModeConsistent ==
    \A j \in DOMAIN meas : \A idx \in DOMAIN meas[j] : \A c \in DOMAIN meas[j][idx] :
        IF smat.partitions = None
        THEN /\ meas[j][idx][c].wave.basis = "ctf_aperture"
             /\ meas[j][idx][c].wave.routine = "_reduce"
        ELSE /\ meas[j][idx][c].wave.basis = "beamlet_basis"
             /\ meas[j][idx][c].wave.routine = "_reduce_partitioned"

(***************************************************************************)
(* SpecEnsemble: reduce() on a frozen-phonon ensemble and the eager         *)
(* SMatrix.scan, for one S-matrix geometry                                 *)
(***************************************************************************)
InitEnsemble ==
    /\ smat \in {s \in BuiltSMatrices :
                    s.sampling = <<1, 1>> /\ s.interpolation = <<2, 2>> /\ s.partitions = None}
    /\ scan \in {s \in GridScansWith({<<FALSE, FALSE>>}) : s.start = <<0, 0>>}
                 \cup CustomScans \cup LineScans
    /\ args \in Arguments({"reduce"}, 1..MaxEnsemble, {FALSE})
                 \cup Arguments({"scan"}, 1..MaxEnsemble, BOOLEAN)
    /\ pc = "call"
    /\ batches = <<>>
    /\ meas = None
    /\ hist = NoHistory
    /\ out = <<>>

NextEnsemble ==
    \/ CallReduce
    \/ EnterReduceSMatrix
    \/ ReduceBatch
    \/ ReturnMeasurements
    \/ CallScan
    \/ ScanMember
    \/ ScanBatch
    \/ ScanMemberDone

SpecEnsemble == InitEnsemble /\ [][NextEnsemble]_vars

\* at most one allocation per reduction, none missing at a write, exactly
\* one when the reduction has finished
AllocatedOnce ==
    /\ hist.allocs <= 1
    /\ pc # "TypeError"
    /\ (pc \in {"loop", "sloop"} /\ hist.i > 0) => (meas # None /\ hist.allocs = 1)
    /\ pc = "done" => hist.allocs = 1

\* a step within one reduction keeps, in every cell of every detector's
\* array, what earlier batches and ensemble members put there
KeepsEarlierWrites ==
    (meas # None /\ meas' # None) =>
        \A j \in DOMAIN meas : \A idx \in DOMAIN meas[j] :
            /\ Len(meas[j][idx]) <= Len(meas'[j][idx])
            /\ SubSeq(meas'[j][idx], 1, Len(meas[j][idx])) = meas[j][idx]

\* C9: in reduce_s_matrix and in the eager SMatrix.scan each detector's
\* measurement array is allocated exactly once, before the first batch
\* writes; no batch writes into an unallocated array and no later batch or
\* ensemble member allocates again and discards earlier writes
C9_AllocatedOnceBeforeWrites == [](AllocatedOnce) /\ [][KeepsEarlierWrites]_vars

\* an eager scan of a two-member ensemble has finished and a cell holds the
\* contributions of both members
C9_Witness ==
    /\ pc = "done"
    /\ args.path = "scan" /\ args.num_members = 2 /\ args.ensemble_mean
    /\ hist.allocs = 1
    /\ \E idx \in DOMAIN out[1] :
           Len(out[1][idx]) = 2 /\ out[1][idx][1].member = 0 /\ out[1][idx][2].member = 1

(***************************************************************************)
(* SpecDistribute: reduce() of a grid scan with and without distribute_scan *)
(***************************************************************************)
DistributeChoices == {None, <<0>>, <<1>>, <<4>>, <<1, 1>>, <<2, 2>>, <<1, 2>>, <<2, 1>>}

InitDistribute ==
    /\ smat \in {s \in BuiltSMatrices : s.sampling = <<1, 1>> /\ s.partitions = None}
    /\ scan \in GridScansWith(BOOLEAN \X BOOLEAN)
    /\ args \in {[a EXCEPT !.distribute_scan = d] :
                    a \in {b \in Arguments({"reduce"}, {1}, {FALSE}) : b.ppr \in {None, <<1>>}},
                    d \in DistributeChoices}
    /\ pc = "call"
    /\ batches = <<>>
    /\ meas = None
    /\ hist = NoHistory
    /\ out = <<>>

\* _distribute_reductions for the next ensemble member (lines 830-836)
DistributeReductions ==
    /\ pc = "member"
    /\ DistributesScan(args.distribute_scan)
    /\ \E r \in {distribute_reductions(smat, args.num_detectors, hist.member, scan,
                                        args.distribute_scan, args.ppr)} :
           IF r.error # None
           THEN /\ pc' = r.error[1]
                /\ UNCHANGED <<out, hist>>
           ELSE /\ out' = Append(out, [j \in 1..args.num_detectors |-> r.value[j].data])
                /\ hist' = [hist EXCEPT !.member = @ + 1]
                /\ pc' = IF hist.member + 1 < args.num_members THEN "member" ELSE "done"
    /\ UNCHANGED <<smat, scan, args, batches, meas>>

NextDistribute ==
    \/ CallReduce
    \/ EnterReduceSMatrix
    \/ ReduceBatch
    \/ ReturnMeasurements
    \/ DistributeReductions

SpecDistribute == InitDistribute /\ [][NextDistribute]_vars

\* the measurements reduce() returns without distribute_scan
Undistributed == reduce_s_matrix(smat, args.num_detectors, 0, scan, args.ppr)

\* C2: a finished reduce() with distribute_scan = (2, 2) returns, for every
\* grid scan, the measurements of the undistributed reduce()
C2_RoundTrip ==
    (pc = "done" /\ args.distribute_scan = <<2, 2>>) =>
        (Undistributed.error = None /\ out[1] = Undistributed.value)

\* the measurement of detector j for the sub-scan of block (i, j0), 1-based
BlockMeasurement(i, j0) ==
    LET sub == divide(scan, args.distribute_scan).value[i][j0]
    IN  reduce_s_matrix(crop_to_positions(smat, sub), args.num_detectors, 0, sub,
                        args.ppr).value

\* C3: a finished reduce() with a tuple divisor (dx, dy) returns arrays of the
\* scan's shape in which block (i, j) of the division sits at block row i and
\* block column j
C3_RowMajor ==
    (pc = "done" /\ DistributesScan(args.distribute_scan) /\ Len(args.distribute_scan) = 2) =>
        LET d == args.distribute_scan
            Nx == SubdivideIntoChunks(scan.gpts[1], d[1])
            Ny == SubdivideIntoChunks(scan.gpts[2], d[2])
        IN  \A j \in 1..args.num_detectors :
                /\ DOMAIN out[1][j] = IndexSet(scan.gpts)
                /\ \A i \in 1..d[1], j0 \in 1..d[2] :
                       \A loc \in IndexSet(<<Nx[i], Ny[j0]>>) :
                           out[1][j][<<ChunkStart(Nx, i) + loc[1], ChunkStart(Ny, j0) + loc[2]>>]
                               = BlockMeasurement(i, j0)[j][loc]

\* C4: reduce() with an int divisor ends as it does with the equivalent
\* tuple: the same exception or the same arrays
C4_IntDivisor ==
    (Len(args.distribute_scan) = 1 /\ DistributesScan(args.distribute_scan)
       /\ pc \notin {"call", "member"}) =>
        LET t == distribute_reductions(smat, args.num_detectors, 0, scan,
                                       ValidateDivisions(args.distribute_scan), args.ppr)
        IN  IF t.error # None THEN pc = t.error[1]
            ELSE pc = "done" /\ out[1] = [j \in 1..args.num_detectors |-> t.value[j].data]

(***************************************************************************)
(* SpecCrop: crop_to_positions applied to a built array, then to its result *)
(***************************************************************************)
MaxCrops == 2

InitCrop ==
    /\ smat \in BuiltSMatrices
    /\ scan \in GridScansWith({<<FALSE, FALSE>>, <<TRUE, TRUE>>}) \cup CustomScans
    /\ args \in {a \in Arguments({"crop"}, {1}, {FALSE}) : a.ppr = None}
    /\ pc = "call"
    /\ batches = <<>>
    /\ meas = None
    /\ hist = NoHistory
    /\ out = <<>>

\* s_matrix = s_matrix.crop_to_positions(scan); out keeps every result
CropToPositions ==
    /\ pc \in {"call", "cropped"}
    /\ Len(out) < MaxCrops
    /\ smat' = crop_to_positions(smat, scan)
    /\ out' = Append(out, smat')
    /\ pc' = "cropped"
    /\ UNCHANGED <<scan, args, batches, meas, hist>>

NextCrop == CropToPositions

SpecCrop == InitCrop /\ [][NextCrop]_vars

\* C5: for an array interpolated on both axes, crop_to_positions applied to
\* the result of crop_to_positions with the same positions returns the
\* contents, shape, crop_offset and uncropped_gpts of the first crop
C5_CropIdempotent ==
    (Len(out) = 2 /\ smat.interpolation[1] > 1 /\ smat.interpolation[2] > 1) =>
        /\ out[2].array = out[1].array
        /\ out[2].gpts = out[1].gpts
        /\ out[2].crop_offset = out[1].crop_offset
        /\ out[2].uncropped_gpts = out[1].uncropped_gpts

\* what crop_to_positions leaves alone, receiver r to result c
CropsOnlyInterpolatedAxes(r, c) ==
    /\ \A a \in 1..2 :
           r.interpolation[a] = 1 => (c.gpts[a] = r.gpts[a] /\ c.crop_offset[a] = 0)
    /\ r.interpolation = <<1, 1>> => (c.array = r.array /\ c.crop_offset = <<0, 0>>)
    /\ UncroppedGpts(c) = UncroppedGpts(r)
    /\ InterpolatedGpts(c) = InterpolatedGpts(r)

\* C6: crop_to_positions crops only the axes with interpolation > 1: on an
\* axis with interpolation 1 the result has the receiver's length and
\* crop_offset 0, with interpolation (1, 1) the array comes back uncropped at
\* offset (0, 0), and uncropped_gpts and interpolated_gpts are the receiver's
C6_CropsOnlyInterpolatedAxes ==
    [][pc' = "cropped" => CropsOnlyInterpolatedAxes(smat, smat')]_vars

\* an array interpolated on its second axis only, cropped to a scan that
\* spans several grid points on both axes: the second axis is cropped
C6_Witness ==
    /\ pc = "cropped" /\ Len(out) = 1
    /\ smat.interpolation = <<1, 2>>
    /\ scan.kind = "grid" /\ scan.gpts = <<3, 3>> /\ scan.start = <<1, 3>>
    /\ smat.gpts[1] = UncroppedGpts(smat)[1]
    /\ smat.gpts[2] # UncroppedGpts(smat)[2]
    /\ smat.crop_offset[2] # 0

(***************************************************************************)
(* SpecGenerate: iterating scan.generate_positions(chunks), twice          *)
(***************************************************************************)
MaxPasses == 2

InitGenerate ==
    /\ smat \in {s \in BuiltSMatrices : s.sampling = <<1, 1>> /\ s.interpolation = <<1, 1>>
                                          /\ s.partitions = None}
    /\ scan \in GridScansWith({<<FALSE, FALSE>>, <<TRUE, FALSE>>}) \cup CustomScans \cup LineScans
    /\ args \in Arguments({"generate"}, {1}, {FALSE})
    /\ pc = "call"
    /\ batches = <<>>
    /\ meas = None
    /\ hist = NoHistory
    /\ out = <<>>

\* scan.generate_positions(chunks=...) is called: a scan variant without the
\* method raises AttributeError
StartGenerate ==
    /\ pc = "call"
    /\ IF HasGeneratePositions(scan)
       THEN /\ batches' = GeneratePositions(scan, ValidatePositionsPerReduction(args.ppr))
            /\ pc' = "iterating"
       ELSE /\ pc' = "AttributeError"
            /\ UNCHANGED batches
    /\ out' = <<>>
    /\ hist' = [hist EXCEPT !.i = 0]
    /\ UNCHANGED <<smat, scan, args, meas>>

\* the generator yields its next (indices, positions) pair
NextPair ==
    /\ pc = "iterating"
    /\ batches # <<>>
    /\ out' = Append(out, Head(batches))
    /\ batches' = Tail(batches)
    /\ hist' = [hist EXCEPT !.i = @ + 1]
    /\ UNCHANGED <<smat, scan, args, meas, pc>>

\* the generator is exhausted
Exhausted ==
    /\ pc = "iterating"
    /\ batches = <<>>
    /\ pc' = "exhausted"
    /\ hist' = [hist EXCEPT !.member = @ + 1]
    /\ UNCHANGED <<smat, scan, args, batches, meas, out>>

\* the caller keeps the pairs of this pass and generates again
Regenerate ==
    /\ pc = "exhausted"
    /\ hist.member < MaxPasses
    /\ meas' = out
    /\ pc' = "call"
    /\ UNCHANGED <<smat, scan, args, batches, hist, out>>

NextGenerate ==
    \/ StartGenerate
    \/ NextPair
    \/ Exhausted
    \/ Regenerate

SpecGenerate == InitGenerate /\ [][NextGenerate]_vars

\* C7: every scan variant (grid, line, custom) generates a finite sequence of
\* (index-slice, positions) pairs; generating again yields the same pairs;
\* the slices cover every index of scan.shape exactly once and each slice
\* comes with the positions at that slice
C7_ChunkedCover ==
    /\ pc # "AttributeError"
    /\ pc = "exhausted" =>
           /\ \A idx \in IndexSet(ScanShape(scan)) :
                  Cardinality({k \in 1..Len(out) : InSlices(idx, out[k].indices)}) = 1
           /\ \A k \in 1..Len(out) :
                  /\ \A a \in 1..Len(out[k].indices) :
                         out[k].indices[a][2] <= ScanShape(scan)[a]
                  /\ out[k].positions = SliceArray(GetPositions(scan), out[k].indices)
    /\ (pc = "exhausted" /\ hist.member = MaxPasses) => out = meas

(***************************************************************************)
(* SpecUnordered: the batches of one reduce_s_matrix call executed and      *)
(* written in any order                                                     *)
(***************************************************************************)
MaxUnordered == 6

\* a sequence without its k-th element
Remove(seq, k) == SubSeq(seq, 1, k - 1) \o SubSeq(seq, k + 1, Len(seq))

InitUnordered ==
    /\ smat \in {s \in BuiltSMatrices : s.sampling = <<1, 1>>
                                          /\ s.interpolation \in {<<2, 2>>, <<1, 2>>}}
    /\ scan \in {s \in GridScansWith({<<FALSE, FALSE>>}) :
                    s.start = <<1, 3>> /\ s.gpts[1] * s.gpts[2] <= MaxUnordered}
                 \cup CustomScans
    /\ args \in Arguments({"reduce"}, {1}, {FALSE})
    /\ pc = "call"
    /\ batches = <<>>
    /\ meas = None
    /\ hist = NoHistory
    /\ out = <<>>

\* one pass of the loop of reduce_s_matrix for any batch not yet executed;
\* the first pass executed allocates
ReduceAnyBatch ==
    /\ pc = "loop"
    /\ \E k \in 1..Len(batches) :
         \E r \in {ReduceStep(smat, args.num_detectors, hist.member, scan, hist.i, meas,
                              batches[k])} :
           IF r.error # None
           THEN /\ pc' = r.error[1]
                /\ UNCHANGED <<meas, batches, hist>>
           ELSE /\ meas' = r.value
                /\ batches' = Remove(batches, k)
                /\ hist' = [hist EXCEPT !.i = @ + 1,
                                        !.allocs = IF AllocatesAt(hist.i) THEN @ + 1 ELSE @]
                /\ pc' = pc
    /\ UNCHANGED <<smat, scan, args, out>>

NextUnordered ==
    \/ CallReduce
    \/ EnterReduceSMatrix
    \/ ReduceAnyBatch
    \/ ReturnMeasurements

SpecUnordered == InitUnordered /\ [][NextUnordered]_vars

\* whether two tuples of slices select a common index
Overlap(a, b) ==
    \A x \in 1..Len(a) : Max2(a[x][1], b[x][1]) < Min2(a[x][2], b[x][2])

\* C8: the index slices of the batches of one reduction are pairwise
\* disjoint -- no batch still to run writes where another batch wrote or will
\* write -- and in whatever order the batches run, the finished measurement
\* arrays are those of the generator's order
C8_DisjointWrites ==
    /\ pc = "loop" =>
           /\ \A k1, k2 \in 1..Len(batches) :
                  k1 # k2 => ~Overlap(batches[k1].indices, batches[k2].indices)
           /\ \A k \in 1..Len(batches) : \A j \in DOMAIN meas : \A idx \in DOMAIN meas[j] :
                  InSlices(idx, batches[k].indices) => meas[j][idx] = <<>>
    /\ pc = "done" =>
           reduce_s_matrix(smat, args.num_detectors, 0, scan, args.ppr) = Ok(out[1])
    /\ RaisedInReduction =>
           reduce_s_matrix(smat, args.num_detectors, 0, scan, args.ppr).error # None

\* a later batch of the generator has written while its first batch has not
\* yet run
C8_Witness ==
    /\ pc = "loop"
    /\ hist.i >= 2
    /\ batches # <<>>
    /\ batches[1] = GeneratePositions(scan, ValidatePositionsPerReduction(args.ppr))[1]
    /\ \E idx \in DOMAIN meas[1] : meas[1][idx] # <<>>


(***************************************************************************)
(* SpecLazy: reduce() on an eagerly held or a deferred array, and          *)
(* SMatrix.scan in eager and in lazy mode                                  *)
(***************************************************************************)
\* position arrays of shape (m, n, 2): two axes of positions under the one
\* PositionsAxis of CustomScan.axes_metadata
StackedCustomScans ==
    {StackedCustomScan([i \in 1..m |-> [j \in 1..MaxCustom |-> <<Rat(i, 1), Rat(j + c, 1)>>]]) :
        m \in 1..MaxCustom, c \in {0, 1}}

LazyArguments(paths) ==
    {[a EXCEPT !.lazy = lazy] : a \in Arguments(paths, {1}, {FALSE}), lazy \in BOOLEAN}

InitLazy ==
    /\ smat \in {s \in BuiltSMatrices : s.sampling = <<1, 1>>}
    /\ scan \in {s \in GridScansWith({<<FALSE, FALSE>>}) : s.start = <<0, 0>> /\ s.end[1] = s.gpts[1]}
                 \cup CustomScans \cup StackedCustomScans \cup LineScans
    /\ args \in LazyArguments({"reduce", "scan"})
    /\ pc = "call"
    /\ batches = <<>>
    /\ meas = None
    /\ hist = NoHistory
    /\ out = <<>>

\* SMatrix.scan with lazy true (lines 1214-1223): build(lazy=True) makes the
\* task graph of the S-matrix, then reduce() validates the positions
ScanLazy ==
    /\ pc = "call"
    /\ args.path = "scan"
    /\ args.lazy
    /\ hist' = [hist EXCEPT !.graphs = @ + 1]
    /\ pc' = IF scan.kind = "line" THEN "NotImplementedError" ELSE "member"
    /\ UNCHANGED <<smat, scan, args, batches, meas, out>>

\* the loop of reduce() on a deferred array (lines 820-847): apply_gufunc
\* puts reduce_s_matrix into the task graph of every ensemble member without
\* running it, and reduce() returns the deferred measurements
ApplyReductionFuncLazy ==
    /\ pc = "member"
    /\ args.lazy
    /\ ~hist.returned
    /\ ~DistributesScan(args.distribute_scan)
    /\ hist' = [hist EXCEPT !.graphs = @ + args.num_members, !.returned = TRUE]
    /\ pc' = "graph"
    /\ UNCHANGED <<smat, scan, args, batches, meas, out>>

\* compute() on the deferred measurements runs the task graph
Compute ==
    /\ pc = "graph"
    /\ pc' = "member"
    /\ UNCHANGED <<smat, scan, args, batches, meas, hist, out>>

NextLazy ==
    \/ CallReduce
    \/ ApplyReductionFuncLazy
    \/ Compute
    \/ EnterReduceSMatrix
    \/ ReduceBatch
    \/ ReturnMeasurements
    \/ ScanLazy
    \/ CallScan
    \/ ScanMember
    \/ ScanBatch
    \/ ScanMemberDone

SpecLazy == InitLazy /\ [][NextLazy]_vars

\* C11: when reduce() ends with the RuntimeError of a mismatch between the
\* number of axis-metadata entries and the rank of the positions minus one,
\* it has built no task graph, has not returned deferred measurements and has
\* contracted no batch
C11_RankMismatchRaisedEagerly ==
    (pc = "RuntimeError" /\ args.path = "reduce") =>
        (hist.graphs = 0 /\ ~hist.returned /\ hist.i = 0)

\* C12: when a LineScan ends reduce() or scan() with NotImplementedError, no
\* S-matrix has been built, no task graph has been built, no measurement has
\* been allocated and no batch has been reduced
C12_LineScanRaisedImmediately ==
    (pc = "NotImplementedError" /\ scan.kind = "line") =>
        (hist.built = 0 /\ hist.graphs = 0 /\ hist.allocs = 0 /\ hist.i = 0)

(***************************************************************************)
(* prism_utils: the wave vectors of the plane-wave expansion               *)
(***************************************************************************)
\* the largest spatial frequency within the cutoff, in units of 1 / extent
MaxFrequency == 2

NumPointsPerRing == 6

\* the wave vectors among the first m points of the reciprocal lattice taken
\* row by row; the lattice spacing is the interpolation factor
RECURSIVE SelectWaveVectors(_, _, _)
SelectWaveVectors(cutoff, interpolation, m) ==
    IF m = 0 THEN <<>>
    ELSE IF ((((m - 1) \div (2 * cutoff + 1)) - cutoff) * interpolation[1])
               * ((((m - 1) \div (2 * cutoff + 1)) - cutoff) * interpolation[1])
            + ((((m - 1) % (2 * cutoff + 1)) - cutoff) * interpolation[2])
               * ((((m - 1) % (2 * cutoff + 1)) - cutoff) * interpolation[2])
            <= cutoff * cutoff
    THEN Append(SelectWaveVectors(cutoff, interpolation, m - 1),
                << (((m - 1) \div (2 * cutoff + 1)) - cutoff) * interpolation[1],
                   (((m - 1) % (2 * cutoff + 1)) - cutoff) * interpolation[2] >>)
    ELSE SelectWaveVectors(cutoff, interpolation, m - 1)

\* prism_wave_vectors(cutoff, extent, energy, interpolation): the lattice
\* points within the cutoff, in a fixed order
prism_wave_vectors(cutoff, interpolation) ==
    SelectWaveVectors(cutoff, interpolation, (2 * cutoff + 1) * (2 * cutoff + 1))

\* partitioned_prism_wave_vectors(cutoff, extent, energy, num_rings,
\* num_points_per_ring): the centre and the points of each ring, a point named
\* by its ring and its place on the ring
partitioned_prism_wave_vectors(cutoff, num_rings, num_points_per_ring) ==
    << <<0, 0>> >> \o
    [n \in 1..(num_rings * num_points_per_ring) |->
        << ((n - 1) \div num_points_per_ring) + 1, (n - 1) % num_points_per_ring >>]

(***************************************************************************)
(* prism.py: the SMatrix builder and the SMatrixArray it builds            *)
(***************************************************************************)
\* SMatrix(potential, energy, planewave_cutoff, interpolation, partitions,
\* normalize, extent, gpts, chunks): potential is None or <<K>> for K
\* frozen-phonon configurations, energy and gpts are None when not given
SMatrix(potential, energy, planewave_cutoff, interpolation, partitions, normalize, gpts, chunks) ==
    [potential |-> potential, energy |-> energy, planewave_cutoff |-> planewave_cutoff,
     interpolation |-> interpolation, partitions |-> partitions, normalize |-> normalize,
     gpts |-> gpts, chunks |-> chunks]

\* Grid.check_is_defined and Accelerator.check_is_defined pass; a potential
\* brings its own grid (lines 927-931, 1049-1051)
GridIsDefined(b) == b.potential # None \/ b.gpts # None

EnergyIsDefined(b) == b.energy # None

\* SMatrix.builder grid points: the potential's grid or the given one
BuilderGpts(b) == IF b.gpts # None THEN b.gpts[1] ELSE <<4, 6>>

\* SMatrix.wave_vectors without its two checks
WaveVectorsUnchecked(b) ==
    IF b.partitions = None
    THEN Ok(prism_wave_vectors(b.planewave_cutoff, b.interpolation))
    ELSE Ok(partitioned_prism_wave_vectors(b.planewave_cutoff, b.partitions[1],
                                           NumPointsPerRing))

\* SMatrix.wave_vectors (lines 1280-1296): the two checks, then the full or
\* the partitioned set
WaveVectors(b) ==
    IF ~GridIsDefined(b) \/ ~EnergyIsDefined(b) THEN Raise("RuntimeError")
    ELSE IF b.partitions = None
    THEN Ok(prism_wave_vectors(b.planewave_cutoff, b.interpolation))
    ELSE Ok(partitioned_prism_wave_vectors(b.planewave_cutoff, b.partitions[1],
                                           NumPointsPerRing))

\* the potentials _generate_s_matrices loops over (lines 1069-1072)
NumPotentials(b) == IF b.potential = None THEN 1 ELSE b.potential[1]

\* _build_chunk taking the first chunk_stop - chunk_start wave vectors
\* whatever chunk_start is
BuildChunkFromStart(b, member, chunk) ==
    LET wave_vectors == IF b.partitions = None
                        THEN prism_wave_vectors(b.planewave_cutoff, b.interpolation)
                        ELSE partitioned_prism_wave_vectors(b.planewave_cutoff, b.partitions[1],
                                                            NumPointsPerRing)
    IN  [n \in 1..(Min2(chunk[2], Len(wave_vectors)) - chunk[1]) |->
            [k |-> wave_vectors[n],
             member |-> IF b.potential = None THEN 0 ELSE member + 1,
             normalized |-> b.normalize]]

\* SMatrix._build_chunk(chunk_start, chunk_stop): one plane wave per wave
\* vector of the chunk, propagated through configuration `member` (0-based;
\* recorded as 0 without a potential, else from 1); normalize selects the
\* constant the plane waves are divided by
BuildChunk(b, member, chunk) ==
    LET wave_vectors == IF b.partitions = None
                        THEN prism_wave_vectors(b.planewave_cutoff, b.interpolation)
                        ELSE partitioned_prism_wave_vectors(b.planewave_cutoff, b.partitions[1],
                                                            NumPointsPerRing)
    IN  [n \in 1..(Min2(chunk[2], Len(wave_vectors)) - chunk[1]) |->
            [k |-> wave_vectors[chunk[1] + n],
             member |-> IF b.potential = None THEN 0 ELSE member + 1,
             normalized |-> b.normalize]]

\* SMatrixArray(array, ...) as _generate_s_matrices and _copy_as_dict call it:
\* the 3- or 4-dimensional array is `planes` (one sequence of plane waves per
\* ensemble member) over the grid `array`; extra_axes is None or <<K>>;
\* chunks is None for an eagerly held array, else the chunk sizes along the
\* plane-wave axis; ops lists what has been applied to the values
SMatrixArrayOf(planes, extra_axes, chunks, gpts, wave_vectors, planewave_cutoff, interpolation, partitions, normalization) ==
    [array |-> BuiltArray(gpts), gpts |-> gpts, planewave_cutoff |-> planewave_cutoff,
     interpolation |-> interpolation,
     partitions |-> partitions, sampling |-> <<1, 1>>, crop_offset |-> <<0, 0>>,
     uncropped_gpts |-> None, planes |-> planes, extra_axes |-> extra_axes,
     chunks |-> chunks, wave_vectors |-> wave_vectors, normalization |-> normalization,
     ops |-> <<>>]

\* array.chunks along the plane-wave axis after da.concatenate(arrays), as a
\* 1-tuple holding the chunk sizes; None for xp.concatenate
ChunksOf(lazy, arrays) == IF lazy THEN <<[k \in 1..Len(arrays) |-> Len(arrays[k])]>> ELSE None

\* lines 1096-1111: the chunk arrays concatenated along the plane-wave axis
\* and wrapped with the builder's wave vectors; normalization is not passed
\* and takes the default 'probe'
ConcatenateChunks(b, lazy, arrays) ==
    SMatrixArrayOf(<<Flatten(arrays)>>, None, ChunksOf(lazy, arrays), BuilderGpts(b),
                   WaveVectors(b).value, b.planewave_cutoff, b.interpolation, b.partitions,
                   "probe")

\* stack_s_matrices taking the arrays in reverse order
StackReversed(s_matrices) ==
    [s_matrices[1] EXCEPT
        !.planes = [m \in 1..Len(s_matrices) |-> s_matrices[Len(s_matrices) + 1 - m].planes[1]],
        !.extra_axes = <<Len(s_matrices)>>,
        !.normalization = "probe"]

\* stack_s_matrices(s_matrices, FrozenPhononsAxis()) (lines 259-270): the
\* arrays stacked on a new leading axis, everything else from the first
stack_s_matrices(s_matrices) ==
    [s_matrices[1] EXCEPT
        !.planes = [m \in 1..Len(s_matrices) |-> s_matrices[m].planes[1]],
        !.extra_axes = <<Len(s_matrices)>>,
        !.normalization = "probe"]

\* the end of build() (lines 1170-1173)
BuildResult(s_matrices) ==
    IF Len(s_matrices) > 1 THEN stack_s_matrices(s_matrices) ELSE s_matrices[1]


(***************************************************************************)
(* SpecBuild: SMatrix.build, chunk by chunk                                *)
(***************************************************************************)
ChunkChoices == {3, 8}

Builders ==
    {SMatrix(potential, energy, MaxFrequency, interpolation, partitions, normalize, gpts, chunks) :
        potential \in {None} \cup {<<K>> : K \in 1..MaxEnsemble},
        energy \in {None, <<100>>},
        interpolation \in InterpolationChoices,
        partitions \in PartitionChoices,
        normalize \in BOOLEAN,
        gpts \in {None, << <<4, 6>> >>},
        chunks \in ChunkChoices}

\* smat is the builder, meas the chunk arrays of the configuration being
\* built and, once build() has returned, a 1-tuple with what it returned;
\* out is the list s_matrices
InitBuild ==
    /\ smat \in Builders
    /\ scan = None
    /\ args \in {[path |-> "build", lazy |-> lazy] : lazy \in BOOLEAN}
    /\ pc = "call"
    /\ batches = <<>>
    /\ meas = None
    /\ hist = NoHistory
    /\ out = <<>>

\* build() starts the generator (line 1169): the grid is matched to the
\* potential and checked (lines 1047-1051)
CallBuild ==
    /\ pc = "call"
    /\ pc' = IF GridIsDefined(smat) THEN "potential" ELSE "RuntimeError"
    /\ UNCHANGED <<smat, scan, args, batches, meas, hist, out>>

\* the loop over the potentials reaches generate_chunks(len(self), ...)
\* (lines 1074-1081)
NextPotential ==
    /\ pc = "potential"
    /\ \E r \in {WaveVectors(smat)} :
          IF r.error # None
          THEN /\ pc' = r.error[1]
               /\ UNCHANGED <<batches, meas>>
          ELSE /\ pc' = "chunks"
               /\ batches' = GenerateChunks(Len(r.value), smat.chunks)
               /\ meas' = <<>>
    /\ UNCHANGED <<smat, scan, args, hist, out>>

\* one pass of the loop over the chunks (lines 1081-1098): the chunk is built
\* now, or put into the task graph
BuildNextChunk ==
    /\ pc = "chunks"
    /\ batches # <<>>
    /\ meas' = Append(meas, BuildChunk(smat, hist.member, Head(batches)))
    /\ batches' = Tail(batches)
    /\ hist' = IF args.lazy THEN [hist EXCEPT !.graphs = @ + 1]
               ELSE [hist EXCEPT !.built = @ + 1]
    /\ UNCHANGED <<smat, scan, args, pc, out>>

\* the S-matrix of a configuration is yielded and appended to s_matrices
\* (lines 1100-1124, 1170)
YieldSMatrix ==
    /\ pc = "chunks"
    /\ batches = <<>>
    /\ out' = Append(out, ConcatenateChunks(smat, args.lazy, meas))
    /\ hist' = [hist EXCEPT !.member = @ + 1]
    /\ pc' = IF hist.member + 1 < NumPotentials(smat) THEN "potential" ELSE "stack"
    /\ UNCHANGED <<smat, scan, args, batches, meas>>

\* build() returns (lines 1172-1175)
ReturnBuild ==
    /\ pc = "stack"
    /\ meas' = <<BuildResult(out)>>
    /\ pc' = "built"
    /\ UNCHANGED <<smat, scan, args, batches, hist, out>>

NextBuild ==
    \/ CallBuild
    \/ NextPotential
    \/ BuildNextChunk
    \/ YieldSMatrix
    \/ ReturnBuild

SpecBuild == InitBuild /\ [][NextBuild]_vars

\* C13: while build() runs on a builder whose grid or energy is undefined, no
\* plane-wave chunk is built or put into a task graph, no S-matrix is yielded
\* and nothing is returned: the call can only end with the error
C13_UndefinedFailsBeforeChunks ==
    (~GridIsDefined(smat) \/ ~EnergyIsDefined(smat)) =>
        /\ pc \in {"call", "potential", "RuntimeError"}
        /\ hist.built = 0 /\ hist.graphs = 0
        /\ batches = <<>> /\ meas = None /\ out = <<>>

\* an eager build of a builder with a potential but no energy has failed
C13_Witness ==
    /\ pc = "RuntimeError"
    /\ GridIsDefined(smat) /\ ~EnergyIsDefined(smat)
    /\ smat.potential # None /\ ~args.lazy

\* C19: what build() returns holds, for K > 1 configurations, a leading axis
\* of length K whose entry m is the array of configuration m, itself the
\* plane waves of the builder's wave vectors in order; for one configuration
\* or no potential it is the one S-matrix, without a leading axis
C19_EnsembleAxis ==
    pc = "built" =>
        /\ Len(out) = NumPotentials(smat)
        /\ \A m \in 1..Len(out) :
              /\ Len(out[m].planes[1]) = Len(WaveVectors(smat).value)
              /\ \A n \in 1..Len(out[m].planes[1]) :
                    /\ out[m].planes[1][n].k = WaveVectors(smat).value[n]
                    /\ out[m].planes[1][n].member = IF smat.potential = None THEN 0 ELSE m
        /\ IF NumPotentials(smat) > 1
           THEN /\ meas[1].extra_axes = <<NumPotentials(smat)>>
                /\ Len(meas[1].planes) = NumPotentials(smat)
                /\ \A m \in 1..NumPotentials(smat) : meas[1].planes[m] = out[m].planes[1]
           ELSE /\ meas[1].extra_axes = None
                /\ meas[1] = out[1]

\* a lazily built ensemble of the largest size, several chunks per member
C19_Witness ==
    /\ pc = "built"
    /\ NumPotentials(smat) = MaxEnsemble
    /\ args.lazy
    /\ meas[1].chunks # None /\ Len(meas[1].chunks[1]) > 1
    /\ meas[1].planes[MaxEnsemble][1].member = MaxEnsemble

(***************************************************************************)
(* SpecConstruct: the interpolation argument of SMatrix(...) and           *)
(* SMatrixArray(...)                                                       *)
(***************************************************************************)
MaxInterpolationLen == 3

\* a Python number: an int, or a float num / den
PyInt(n) == [type |-> "int", num |-> n, den |-> 1]

PyFloat(num, den) == [type |-> "float", num |-> num, den |-> den]

\* a Python value given as interpolation: a number (kind "scalar", one item)
\* or a tuple or list of numbers
PyValue(kind, items) == [kind |-> kind, items |-> items]

\* isinstance(interpolation, int)
IsInt(v) == v.kind = "scalar" /\ v.items[1].type = "int"

\* validate_interpolation (lines 89-94); len() of a float is a TypeError
validate_interpolation(interpolation) ==
    IF IsInt(interpolation)
    THEN Ok(PyValue("tuple", <<interpolation.items[1], interpolation.items[1]>>))
    ELSE IF interpolation.kind = "scalar" THEN Raise("TypeError")
    ELSE IF ~(Len(interpolation.items) = 2) THEN Raise("ValueError")
    ELSE Ok(interpolation)

NumberChoices == {PyInt(n) : n \in -1..2} \cup {PyFloat(3, 2)}

InterpolationInputs ==
    {PyValue("scalar", <<x>>) : x \in NumberChoices}
    \cup {PyValue(kind, items) :
            kind \in {"tuple", "list"},
            items \in UNION {[1..n -> NumberChoices] : n \in 0..MaxInterpolationLen}}

\* args.cls is the class constructed
InitConstruct ==
    /\ smat = None
    /\ scan = None
    /\ args \in {[path |-> "construct", cls |-> cls, interpolation |-> v] :
                    cls \in {"SMatrix", "SMatrixArray"}, v \in InterpolationInputs}
    /\ pc = "call"
    /\ batches = <<>>
    /\ meas = None
    /\ hist = NoHistory
    /\ out = <<>>

\* SMatrix.__init__ (line 933) and SMatrixArray.__init__ (line 401) store
\* validate_interpolation(interpolation); out holds the stored value
Construct ==
    /\ pc = "call"
    /\ \E r \in {validate_interpolation(args.interpolation)} :
          IF r.error # None
          THEN pc' = r.error[1] /\ UNCHANGED out
          ELSE pc' = "constructed" /\ out' = <<r.value>>
    /\ UNCHANGED <<smat, scan, args, batches, meas, hist>>

NextConstruct == Construct

SpecConstruct == InitConstruct /\ [][NextConstruct]_vars

\* a positive int or a tuple or list of two positive ints
IsValidInterpolation(v) ==
    /\ v.kind = "scalar" \/ Len(v.items) = 2
    /\ \A k \in 1..Len(v.items) : v.items[k].type = "int" /\ v.items[k].num > 0

\* C14: a constructor given an interpolation that is neither a positive int
\* nor a 2-sequence of positive ints ends with an error, and the value a
\* constructor stores is a 2-tuple of positive ints
C14_InterpolationValidated ==
    /\ (pc # "call" /\ ~IsValidInterpolation(args.interpolation)) => pc # "constructed"
    /\ pc = "constructed" =>
          /\ out[1].kind = "tuple" /\ Len(out[1].items) = 2
          /\ \A k \in 1..2 : out[1].items[k].type = "int" /\ out[1].items[k].num > 0

(***************************************************************************)
(* prism.py: the transforms of an SMatrixArray                             *)
(***************************************************************************)
\* the pure build(): every chunk of every configuration built and joined
build(b, lazy) ==
    BuildResult([m \in 1..NumPotentials(b) |->
        ConcatenateChunks(b, lazy,
            [k \in 1..Len(GenerateChunks(Len(WaveVectors(b).value), b.chunks)) |->
                BuildChunk(b, m - 1, GenerateChunks(Len(WaveVectors(b).value), b.chunks)[k])])])

\* SMatrixArray(**d) for d = _copy_as_dict() with the full wave vectors of
\* the cutoff in place of the receiver's
CopyWithFullWaveVectors(s) ==
    [s EXCEPT !.wave_vectors = prism_wave_vectors(s.planewave_cutoff, s.interpolation),
              !.normalization = "probe"]

\* SMatrixArray(**d) for d = _copy_as_dict() (lines 849-867) and an array of
\* the caller: d has no 'normalization', so the new object has the default
copy_as_dict(s) == [s EXCEPT !.normalization = "probe"]

\* SMatrixArray.copy (lines 869-879)
copy(s) == copy_as_dict(s)

\* dask's array.rechunk(chunks=n) along the plane-wave axis: blocks of n
DaskRechunk(length, n) ==
    [k \in 1..((length + n - 1) \div n) |-> Min2(n, length - (k - 1) * n)]

\* rechunk that rechunks whatever array it is given
RechunkAnyArray(s, chunks) ==
    Ok([s EXCEPT !.chunks = IF chunks = None THEN << <<Len(s.planes[1])>> >>
                            ELSE <<DaskRechunk(Len(s.planes[1]), chunks[1])>>])

\* SMatrixArray.rechunk(chunks) (lines 505-513): the receiver afterwards, or
\* the error; chunks None joins the plane-wave axis into one chunk
rechunk(s, chunks) ==
    IF s.chunks = None THEN Raise("RuntimeError")
    ELSE Ok([s EXCEPT !.chunks = IF chunks = None THEN << <<Len(s.planes[1])>> >>
                                 ELSE <<DaskRechunk(Len(s.planes[1]), chunks[1])>>])

\* SMatrixArray.remove_tilt (lines 601-624): the receiver afterwards
remove_tilt(s) == [s EXCEPT !.ops = Append(@, "remove_tilt")]

\* the chunk of the densified array for full wave vectors start..stop
\* (lines 635-644): one plane per wave vector, combined from the receiver's
DenseChunk(s, wave_vectors, chunk) ==
    [n \in 1..(chunk[2] - chunk[1]) |->
        [k |-> wave_vectors[chunk[1] + n],
         member |-> s.planes[1][1].member,
         normalized |-> s.planes[1][1].normalized]]

\* the arrays of the loop of interpolate_full (lines 633-645)
DenseChunks(s, wave_vectors, chunks) ==
    [c \in 1..Len(GenerateChunks(Len(wave_vectors), chunks)) |->
        DenseChunk(s, wave_vectors, GenerateChunks(Len(wave_vectors), chunks)[c])]

\* interpolate_full that leaves wave vectors and partitions as they were
InterpolateKeepingWaveVectors(s, chunks) ==
    [copy_as_dict(s) EXCEPT !.ops = Append(@, "interpolate_full")]

\* lines 631-652 of interpolate_full on the receiver s as remove_tilt and
\* rechunk left it: what is returned
interpolate_full(s, chunks) ==
    [copy_as_dict(s) EXCEPT
        !.planes = <<Flatten(DenseChunks(s, prism_wave_vectors(s.planewave_cutoff, s.interpolation),
                                         chunks))>>,
        !.chunks = <<[c \in 1..Len(GenerateChunks(Len(prism_wave_vectors(s.planewave_cutoff,
                                                                         s.interpolation)), chunks)) |->
                        GenerateChunks(Len(prism_wave_vectors(s.planewave_cutoff, s.interpolation)),
                                       chunks)[c][2]
                        - GenerateChunks(Len(prism_wave_vectors(s.planewave_cutoff, s.interpolation)),
                                         chunks)[c][1]]>>,
        !.wave_vectors = prism_wave_vectors(s.planewave_cutoff, s.interpolation),
        !.partitions = None,
        !.ops = Append(@, "interpolate_full")]

\* downsample with the two modes exchanged
DownsampleNormalizationSwapped(normalization) ==
    IF normalization = "probe" THEN Ok("values")
    ELSE IF normalization = "planewaves" THEN Ok("amplitude")
    ELSE Raise("RuntimeError")

\* the normalization downsample passes to Waves.downsample (lines 546-551)
DownsampleNormalization(normalization) ==
    IF normalization = "probe" THEN Ok("amplitude")
    ELSE IF normalization = "planewaves" THEN Ok("values")
    ELSE Raise("RuntimeError")

\* gpts after Waves.downsample(max_angle): halved on an even grid
DownsampledGpts(gpts) ==
    IF gpts[1] % 2 = 0 /\ gpts[2] % 2 = 0 THEN <<gpts[1] \div 2, gpts[2] \div 2>> ELSE gpts

\* SMatrixArray.downsample (lines 542-556): what is returned, or the error
downsample(s) ==
    IF DownsampleNormalization(s.normalization).error # None
    THEN DownsampleNormalization(s.normalization)
    ELSE Ok([copy_as_dict(s) EXCEPT
                !.array = [idx \in IndexSet(DownsampledGpts(s.gpts)) |->
                              s.array[<<idx[1] * (s.gpts[1] \div DownsampledGpts(s.gpts)[1]),
                                        idx[2] * (s.gpts[2] \div DownsampledGpts(s.gpts)[2])>>]],
                !.gpts = DownsampledGpts(s.gpts),
                !.sampling = [a \in 1..2 |-> s.sampling[a] * (s.gpts[a] \div DownsampledGpts(s.gpts)[a])],
                !.ops = Append(@, IF DownsampleNormalization(s.normalization).value = "amplitude"
                                  THEN "downsample_amplitude" ELSE "downsample_values")])

(***************************************************************************)
(* SpecArray: sequences of transforms of one SMatrixArray                  *)
(***************************************************************************)
MaxOps == 3

NormalizationChoices == {"probe", "planewaves", "values"}

\* the arrays build() returns, and the same given another normalization by
\* the constructor
BuiltObjects ==
    {[build(SMatrix(potential, <<100>>, MaxFrequency, interpolation, partitions, TRUE,
                    << <<4, 6>> >>, 3), lazy)
         EXCEPT !.normalization = normalization] :
        potential \in {None, <<MaxEnsemble>>},
        interpolation \in {<<1, 1>>, <<2, 2>>},
        partitions \in PartitionChoices,
        lazy \in BOOLEAN,
        normalization \in NormalizationChoices}

\* the arguments of the call just made
Called(op, chunks) == [path |-> "array", op |-> op, chunks |-> chunks]

\* smat is the receiver, batches a 1-tuple with the array as it was built,
\* meas a 1-tuple with the receiver before the last call, out a 1-tuple with
\* what the last call returned (empty when it raised), hist.i the number of
\* calls made
InitArray ==
    /\ smat \in BuiltObjects
    /\ scan \in {s \in GridScansWith({<<FALSE, FALSE>>}) :
                    s.gpts = <<2, 2>> /\ s.start = <<1, 3>>}
    /\ args = Called("build", None)
    /\ pc = "returned"
    /\ batches = <<smat>>
    /\ meas = <<smat>>
    /\ hist = NoHistory
    /\ out = <<smat>>

\* s.crop_to_positions(scan)
CropArray ==
    /\ hist.i < MaxOps
    /\ args' = Called("crop_to_positions", None)
    /\ meas' = <<smat>>
    /\ out' = <<crop_to_positions(copy_as_dict(smat), scan)>>
    /\ pc' = "returned"
    /\ hist' = [hist EXCEPT !.i = @ + 1]
    /\ UNCHANGED <<smat, scan, batches>>

\* s.rechunk(chunks): returns the receiver
Rechunk ==
    /\ hist.i < MaxOps
    /\ \E chunks \in {None} \cup {<<n>> : n \in ChunkChoices} :
          /\ args' = Called("rechunk", chunks)
          /\ \E r \in {rechunk(smat, chunks)} :
                IF r.error # None
                THEN pc' = r.error[1] /\ out' = <<>> /\ UNCHANGED smat
                ELSE pc' = "returned" /\ smat' = r.value /\ out' = <<r.value>>
    /\ meas' = <<smat>>
    /\ hist' = [hist EXCEPT !.i = @ + 1]
    /\ UNCHANGED <<scan, batches>>

\* s.remove_tilt(): changes and returns the receiver
RemoveTilt ==
    /\ hist.i < MaxOps
    /\ args' = Called("remove_tilt", None)
    /\ meas' = <<smat>>
    /\ smat' = remove_tilt(smat)
    /\ out' = <<remove_tilt(smat)>>
    /\ pc' = "returned"
    /\ hist' = [hist EXCEPT !.i = @ + 1]
    /\ UNCHANGED <<scan, batches>>

\* s.interpolate_full(chunks) on a 3-dimensional array: remove_tilt() and
\* rechunk() act on the receiver (lines 628-629), then the dense array is
\* made from it
InterpolateFull ==
    /\ hist.i < MaxOps
    /\ smat.extra_axes = None
    /\ \E chunks \in ChunkChoices :
          /\ args' = Called("interpolate_full", <<chunks>>)
          /\ \E r \in {rechunk(remove_tilt(smat), None)} :
                IF r.error # None
                THEN pc' = r.error[1] /\ out' = <<>> /\ smat' = remove_tilt(smat)
                ELSE /\ pc' = "returned"
                     /\ smat' = r.value
                     /\ out' = <<interpolate_full(r.value, chunks)>>
    /\ meas' = <<smat>>
    /\ hist' = [hist EXCEPT !.i = @ + 1]
    /\ UNCHANGED <<scan, batches>>

\* s.downsample()
Downsample ==
    /\ hist.i < MaxOps
    /\ args' = Called("downsample", None)
    /\ meas' = <<smat>>
    /\ \E r \in {downsample(smat)} :
          IF r.error # None
          THEN pc' = r.error[1] /\ out' = <<>>
          ELSE pc' = "returned" /\ out' = <<r.value>>
    /\ hist' = [hist EXCEPT !.i = @ + 1]
    /\ UNCHANGED <<smat, scan, batches>>

\* s.copy()
Copy ==
    /\ hist.i < MaxOps
    /\ args' = Called("copy", None)
    /\ meas' = <<smat>>
    /\ out' = <<copy(smat)>>
    /\ pc' = "returned"
    /\ hist' = [hist EXCEPT !.i = @ + 1]
    /\ UNCHANGED <<smat, scan, batches>>

\* s = <what the last call returned>: the next call is made on it
Rebind ==
    /\ out # <<>>
    /\ out[1] # smat
    /\ smat' = out[1]
    /\ args' = Called("rebind", None)
    /\ meas' = <<smat>>
    /\ UNCHANGED <<scan, pc, batches, hist, out>>

NextArray ==
    \/ CropArray
    \/ Rechunk
    \/ RemoveTilt
    \/ InterpolateFull
    \/ Downsample
    \/ Copy
    \/ Rebind

SpecArray == InitArray /\ [][NextArray]_vars

\* the length of the plane-wave axis that the chunk sizes add up to
RECURSIVE SumOf(_)
SumOf(sizes) == IF sizes = <<>> THEN 0 ELSE Head(sizes) + SumOf(Tail(sizes))

\* C15: rechunk on an eagerly held array ends with an error and leaves the
\* receiver as it was; on a deferred array it returns the receiver changed
\* in its chunk sizes only, which still add up to the plane-wave axis
C15_RechunkOnlyChunks ==
    args.op = "rechunk" =>
        IF meas[1].chunks = None
        THEN pc = "RuntimeError" /\ smat = meas[1] /\ out = <<>>
        ELSE /\ pc = "returned"
             /\ out = <<smat>>
             /\ smat = [meas[1] EXCEPT !.chunks = smat.chunks]
             /\ smat.chunks # None
             /\ SumOf(smat.chunks[1]) = Len(smat.planes[1])

\* a deferred array of several chunks rechunked into one, and an eagerly
\* held array whose rechunk raised
C15_Witness ==
    /\ args.op = "rechunk"
    /\ \/ /\ pc = "returned" /\ Len(meas[1].chunks[1]) > 1 /\ Len(smat.chunks[1]) = 1
       \/ /\ pc = "RuntimeError" /\ meas[1].chunks = None /\ hist.i > 1

\* the index of the last "interpolate_full" among the first n entries of ops
RECURSIVE LastDensification(_, _)
LastDensification(ops, n) ==
    IF n = 0 THEN 0
    ELSE IF ops[n] = "interpolate_full" THEN n
    ELSE LastDensification(ops, n - 1)

\* how often tilt removal was applied to the array that entered the last
\* densification, since the densification before it
TiltRemovalsEntering(ops) ==
    Cardinality({i \in (LastDensification(ops, LastDensification(ops, Len(ops)) - 1) + 1)
                         ..(LastDensification(ops, Len(ops)) - 1) :
                    ops[i] = "remove_tilt"})

\* C16: the array interpolate_full returns was densified from an array that
\* tilt removal had been applied to exactly once
C16_TiltRemovedOnce ==
    (args.op = "interpolate_full" /\ pc = "returned") =>
        TiltRemovalsEntering(out[1].ops) = 1

\* C17: whatever the chunk size, the array interpolate_full returns has the
\* full wave vectors of its cutoff and interpolation, one plane per wave
\* vector in their order, chunks that add up to their number, and no
\* partition count
C17_InterpolateFull ==
    (args.op = "interpolate_full" /\ pc = "returned") =>
        /\ out[1].wave_vectors = prism_wave_vectors(meas[1].planewave_cutoff, meas[1].interpolation)
        /\ Len(out[1].planes) = 1
        /\ Len(out[1].planes[1]) = Len(out[1].wave_vectors)
        /\ \A n \in 1..Len(out[1].planes[1]) : out[1].planes[1][n].k = out[1].wave_vectors[n]
        /\ SumOf(out[1].chunks[1]) = Len(out[1].wave_vectors)
        /\ out[1].partitions = None

\* a partitioned array of one ring densified in several chunks
C17_Witness ==
    /\ args.op = "interpolate_full" /\ pc = "returned"
    /\ meas[1].partitions = <<1>>
    /\ meas[1].wave_vectors # out[1].wave_vectors
    /\ Len(out[1].chunks[1]) > 1

\* C18: downsample returns an array downsampled with amplitude normalization
\* for a 'probe' receiver and with value normalization for a 'planewaves'
\* receiver; for any other normalization it ends with an error and returns
\* nothing; the receiver is unchanged in every case
C18_DownsampleNormalization ==
    args.op = "downsample" =>
        /\ smat = meas[1]
        /\ IF smat.normalization = "probe"
           THEN pc = "returned" /\ out[1].ops = Append(smat.ops, "downsample_amplitude")
           ELSE IF smat.normalization = "planewaves"
           THEN pc = "returned" /\ out[1].ops = Append(smat.ops, "downsample_values")
           ELSE pc = "RuntimeError" /\ out = <<>>

\* a 'planewaves' array downsampled, and an array of another normalization
\* whose downsample raised
C18_Witness ==
    /\ args.op = "downsample"
    /\ \/ smat.normalization = "planewaves" /\ pc = "returned" /\ out[1].gpts # smat.gpts
       \/ smat.normalization = "values" /\ pc = "RuntimeError"

\* an array that has not been densified has the wave vectors of the build and
\* as many planes, for every ensemble member, as wave vectors
KeepsWaveVectors(s) ==
    LastDensification(s.ops, Len(s.ops)) = 0 =>
        /\ s.wave_vectors = batches[1].wave_vectors
        /\ \A m \in 1..Len(s.planes) : Len(s.planes[m]) = Len(s.wave_vectors)
        /\ s.chunks # None => SumOf(s.chunks[1]) = Len(s.wave_vectors)

\* C20: an array that was built and then cropped, rechunked, tilt-corrected,
\* downsampled and copied any number of times has the wave vectors it was
\* built with, index for index, and as many planes on its plane-wave axis
\* as it has wave vectors
C20_WaveVectorsKept ==
    /\ KeepsWaveVectors(smat)
    /\ out # <<>> => KeepsWaveVectors(out[1])

\* a partitioned ensemble array after a crop, a tilt removal and a downsample
C20_Witness ==
    /\ hist.i = MaxOps
    /\ smat.extra_axes # None /\ smat.partitions = <<1>>
    /\ smat.gpts # batches[1].gpts
    /\ smat.crop_offset # <<0, 0>>
    /\ \E i \in 1..Len(smat.ops) : smat.ops[i] = "remove_tilt"
    /\ \E i \in 1..Len(smat.ops) : smat.ops[i] = "downsample_amplitude"
    /\ Len(smat.planes[1]) = Len(batches[1].wave_vectors)

(***************************************************************************)
(* SpecBuild: the chunks of the plane-wave axis                            *)
(***************************************************************************)
\* the sizes of the chunk arrays in a list
ChunkSizes(arrays) == [k \in 1..Len(arrays) |-> Len(arrays[k])]

\* C21: while a configuration is built, the chunk arrays made so far hold
\* between 1 and `chunks` plane waves each and, joined in the order made, the
\* plane waves of wave vectors 0, 1, 2, ... without gap or repeat; the next
\* chunk starts where they end and after the last all N are there; every
\* yielded S-matrix holds the N plane waves in index order, in chunks of at
\* most `chunks` when lazy; the chunk sizes of a run, lazy or not, are the
\* chunk sizes the lazily built array reports, and the lazy and the eager
\* result differ in nothing else
C21_ContiguousChunks ==
    \E wave_vectors \in {WaveVectors(smat).value} :
        /\ pc = "chunks" =>
              \E joined \in {Flatten(meas)} :
                  /\ \A k \in 1..Len(meas) : Len(meas[k]) \in 1..smat.chunks
                  /\ Len(joined) <= Len(wave_vectors)
                  /\ \A n \in 1..Len(joined) : joined[n].k = wave_vectors[n]
                  /\ IF batches = <<>>
                     THEN Len(joined) = Len(wave_vectors)
                     ELSE /\ Head(batches)[1] = Len(joined)
                          /\ Head(batches)[2] > Head(batches)[1]
        /\ \A m \in 1..Len(out) :
              /\ Len(out[m].planes[1]) = Len(wave_vectors)
              /\ \A n \in 1..Len(wave_vectors) : out[m].planes[1][n].k = wave_vectors[n]
              /\ args.lazy =>
                    /\ SumOf(out[m].chunks[1]) = Len(wave_vectors)
                    /\ \A k \in 1..Len(out[m].chunks[1]) :
                          out[m].chunks[1][k] \in 1..smat.chunks
        /\ pc = "stack" =>
              \E lazily \in {build(smat, TRUE)} :
                  /\ ChunkSizes(meas) = lazily.chunks[1]
                  /\ args.lazy => \A m \in 1..Len(out) : out[m].chunks = lazily.chunks
        /\ pc = "built" =>
              /\ meas[1] = build(smat, args.lazy)
              /\ [build(smat, TRUE) EXCEPT !.chunks = None] = build(smat, FALSE)

\* an eager build whose wave vectors are more than one chunk has built the
\* last chunk of a configuration, and a lazy build of several chunks has
\* returned
C21_Witness ==
    \/ /\ pc = "chunks" /\ ~args.lazy
       /\ batches = <<>>
       /\ Len(meas) > 1
       /\ Len(meas[1]) # Len(meas[Len(meas)])
    \/ /\ pc = "built" /\ args.lazy
       /\ Len(meas[1].chunks[1]) > 1

(***************************************************************************)
(* SpecGrid: the grid of the chunks and of the S-matrices that             *)
(* _generate_s_matrices yields, with and without downsampling              *)
(***************************************************************************)
\* the builder's extent: the grids are sampled at 1 per grid point
BuilderExtent(b) == BuilderGpts(b)

\* self._gpts_within_angle(downsample): the grid that holds the angles up to
\* the maximum, here the grid halved when it is even
gpts_within_angle(b, max_angle) == DownsampledGpts(BuilderGpts(b))

\* lines 1063-1066: the grid chosen at the start; downsample is None for
\* False, else a 1-tuple with the angle
WorkingGpts(b, max_angle) ==
    IF max_angle # None THEN gpts_within_angle(b, max_angle) ELSE BuilderGpts(b)

\* line 1068: sampling = (extent[0] / gpts[0], extent[1] / gpts[1])
WorkingSampling(b, max_angle) ==
    [a \in 1..2 |-> Rat(BuilderExtent(b)[a], WorkingGpts(b, max_angle)[a])]

\* the grid of the array _build_chunk(..., downsample) returns (lines
\* 1025-1039): the plane waves are made on self.gpts; only with a potential
\* are they propagated and, when asked, downsampled
BuildChunkGpts(b, max_angle) ==
    IF b.potential # None
    THEN IF max_angle # None THEN DownsampledGpts(BuilderGpts(b)) ELSE BuilderGpts(b)
    ELSE BuilderGpts(b)

\* one entry of `arrays` (lines 1082-1098): its length, the grid of the chunk
\* that _build_chunk returns when it runs, and the grid of array.shape, which
\* for a delayed chunk is the declared shape (chunk_stop - chunk_start,) + gpts
ChunkArray(b, lazy, max_angle, chunk) ==
    [length |-> chunk[2] - chunk[1],
     built |-> BuildChunkGpts(b, max_angle),
     shape |-> IF lazy THEN WorkingGpts(b, max_angle) ELSE BuildChunkGpts(b, max_angle)]

\* lines 1100-1111: the concatenated array wrapped; Grid(gpts=array.shape[-2:],
\* sampling=sampling) at line 403
YieldedSMatrix(b, max_angle, arrays) ==
    [gpts |-> arrays[1].shape,
     sampling |-> WorkingSampling(b, max_angle),
     built |-> [k \in 1..Len(arrays) |-> arrays[k].built]]

GridChoices == {<<4, 6>>, <<3, 6>>}

GridBuilders ==
    {SMatrix(potential, <<100>>, MaxFrequency, interpolation, partitions, TRUE, gpts, chunks) :
        potential \in {None} \cup {<<K>> : K \in 1..MaxEnsemble},
        interpolation \in {<<1, 1>>, <<2, 2>>},
        partitions \in PartitionChoices,
        gpts \in {None} \cup {<<g>> : g \in GridChoices},
        chunks \in ChunkChoices}

\* build(lazy, downsample) with downsample False or 'cutoff', and
\* scan(..., lazy) with its default downsample='cutoff' (line 1191)
GridArguments ==
    {[path |-> "build", lazy |-> lazy, downsample |-> max_angle] :
        lazy \in BOOLEAN, max_angle \in {None, <<"cutoff">>}}
    \cup {[path |-> "scan", lazy |-> lazy, downsample |-> <<"cutoff">>] : lazy \in BOOLEAN}

\* smat is the builder, batches the chunks still to make, meas the list
\* `arrays` of the configuration being built, out the S-matrices yielded
InitGrid ==
    /\ smat \in GridBuilders
    /\ scan = None
    /\ args \in GridArguments
    /\ pc = "call"
    /\ batches = <<>>
    /\ meas = <<>>
    /\ hist = NoHistory
    /\ out = <<>>

\* the generator starts (lines 1047-1051): the grid is checked
GenerateSMatrices ==
    /\ pc = "call"
    /\ pc' = IF GridIsDefined(smat) THEN "potential" ELSE "RuntimeError"
    /\ UNCHANGED <<smat, scan, args, batches, meas, hist, out>>

\* the loop over the potentials reaches generate_chunks (lines 1074-1081)
GridNextPotential ==
    /\ pc = "potential"
    /\ pc' = "chunks"
    /\ batches' = GenerateChunks(Len(WaveVectors(smat).value), smat.chunks)
    /\ meas' = <<>>
    /\ UNCHANGED <<smat, scan, args, hist, out>>

\* one pass of the loop over the chunks (lines 1081-1098)
GridNextChunk ==
    /\ pc = "chunks"
    /\ batches # <<>>
    /\ meas' = Append(meas, ChunkArray(smat, args.lazy, args.downsample, Head(batches)))
    /\ batches' = Tail(batches)
    /\ hist' = IF args.lazy THEN [hist EXCEPT !.graphs = @ + 1]
               ELSE [hist EXCEPT !.built = @ + 1]
    /\ UNCHANGED <<smat, scan, args, pc, out>>

\* the S-matrix of a configuration is yielded (lines 1100-1124)
GridYield ==
    /\ pc = "chunks"
    /\ batches = <<>>
    /\ out' = Append(out, YieldedSMatrix(smat, args.downsample, meas))
    /\ hist' = [hist EXCEPT !.member = @ + 1]
    /\ pc' = IF hist.member + 1 < NumPotentials(smat) THEN "potential" ELSE "done"
    /\ UNCHANGED <<smat, scan, args, batches, meas>>

NextGrid ==
    \/ GenerateSMatrices
    \/ GridNextPotential
    \/ GridNextChunk
    \/ GridYield

SpecGrid == InitGrid /\ [][NextGrid]_vars

\* C22: every chunk made, and every S-matrix yielded, has the grid chosen at
\* the start - the reduced grid when downsampling is asked for, else the full
\* one - both as the array reports it and as the chunk is when built; and the
\* yielded grid times its sampling is the builder's extent on both axes
C22_GridIsWorkingGrid ==
    /\ \A k \in 1..Len(meas) :
          /\ meas[k].built = WorkingGpts(smat, args.downsample)
          /\ meas[k].shape = WorkingGpts(smat, args.downsample)
    /\ \A m \in 1..Len(out) :
          /\ out[m].gpts = WorkingGpts(smat, args.downsample)
          /\ \A k \in 1..Len(out[m].built) : out[m].built[k] = out[m].gpts
          /\ \A a \in 1..2 :
                Rat(out[m].gpts[a] * out[m].sampling[a][1], out[m].sampling[a][2])
                    = <<BuilderExtent(smat)[a], 1>>

(***************************************************************************)
(* SpecDivide: GridScan.divide and the positions of the sub-scans          *)
(***************************************************************************)
DivisionChoices == {<<1, 1>>, <<1, 2>>, <<2, 1>>, <<2, 2>>, <<3, 2>>, <<4>>}

\* scan is the grid scan, out a 1-tuple with the list of lists divide()
\* returned, batches the sub-scans whose positions are still to be taken,
\* meas the positions of the sub-scans taken so far, each with its shape
InitDivide ==
    /\ smat = None
    /\ scan \in GridScansWith(BOOLEAN \X BOOLEAN)
    /\ args \in {[path |-> "divide", divisions |-> d] : d \in DivisionChoices}
    /\ pc = "call"
    /\ batches = <<>>
    /\ meas = <<>>
    /\ hist = NoHistory
    /\ out = <<>>

\* scan.divide(divisions)
Divide ==
    /\ pc = "call"
    /\ \E r \in {divide(scan, args.divisions)} :
          IF r.error # None
          THEN /\ pc' = r.error[1]
               /\ UNCHANGED <<out, batches>>
          ELSE /\ pc' = "divided"
               /\ out' = <<r.value>>
               /\ batches' = Flatten(r.value)
    /\ UNCHANGED <<smat, scan, args, meas, hist>>

\* get_positions() of the next sub-scan, row by row
BlockPositions ==
    /\ pc = "divided"
    /\ batches # <<>>
    /\ meas' = Append(meas, Array(ScanShape(Head(batches)), GetPositions(Head(batches))))
    /\ batches' = Tail(batches)
    /\ hist' = [hist EXCEPT !.i = @ + 1]
    /\ UNCHANGED <<smat, scan, args, pc, out>>

NextDivide ==
    \/ Divide
    \/ BlockPositions

SpecDivide == InitDivide /\ [][NextDivide]_vars

\* the block, 1-based, that holds index n (0-based) of an axis cut into sizes
BlockOf(sizes, n) ==
    CHOOSE k \in 1..Len(sizes) : ChunkStart(sizes, k) <= n /\ n < ChunkStart(sizes, k) + sizes[k]

\* C23: divide(divisions) returns divisions[0] rows of divisions[1] grid
\* scans; the shapes of the sub-scans are the chunk sizes, which add up to
\* the scan's shape on each axis; and once the positions of every sub-scan
\* are taken, the position of the scan at every index is the position the
\* sub-scan of its block has at the index counted from the block's corner
C23_DivideKeepsPositions ==
    pc = "divided" =>
        \E d \in {ValidateDivisions(args.divisions)} :
        \E Nx \in {SubdivideIntoChunks(scan.gpts[1], d[1])} :
        \E Ny \in {SubdivideIntoChunks(scan.gpts[2], d[2])} :
            /\ Len(out[1]) = d[1]
            /\ \A i \in 1..d[1] :
                  /\ Len(out[1][i]) = d[2]
                  /\ \A j \in 1..d[2] :
                        /\ out[1][i][j].kind = "grid"
                        /\ ScanShape(out[1][i][j]) = <<Nx[i], Ny[j]>>
            /\ SumOf(Nx) = ScanShape(scan)[1]
            /\ SumOf(Ny) = ScanShape(scan)[2]
            /\ batches = <<>> =>
                  \A idx \in IndexSet(scan.gpts) :
                      GetPositions(scan)[idx] =
                          meas[(BlockOf(Nx, idx[1]) - 1) * d[2] + BlockOf(Ny, idx[2])].data[
                              << idx[1] - ChunkStart(Nx, BlockOf(Nx, idx[1])),
                                 idx[2] - ChunkStart(Ny, BlockOf(Ny, idx[2])) >>]

(***************************************************************************)
(* Spec: the size of the batches of positions                              *)
(***************************************************************************)
\* np.prod(shape)
RECURSIVE Prod(_)
Prod(shape) == IF shape = <<>> THEN 1 ELSE Head(shape) * Prod(Tail(shape))

\* C24: every batch of positions that the loop of a reduction still has to
\* take holds at most probes_per_reduction positions, 300 when that is None
C24_BatchWithinLimit ==
    pc = "loop" =>
        \A k \in 1..Len(batches) :
            Prod(batches[k].shape) <= ValidatePositionsPerReduction(args.ppr)

(***************************************************************************)
(* SpecBuild: the grid of a probe, from the builder and from what it built *)
(***************************************************************************)
\* SMatrix.interpolated_gpts (lines 996-997): both axes are divided by
\* interpolation[0]
BuilderInterpolatedGpts(b) ==
    << BuilderGpts(b)[1] \div b.interpolation[1],
       BuilderGpts(b)[2] \div b.interpolation[1] >>

\* C25: the interpolated_gpts of a builder is the interpolated_gpts of the
\* array that build() returned, which is the grid divided axis by axis by
\* the interpolation
C25_InterpolatedGptsAgree ==
    pc = "built" =>
        /\ BuilderInterpolatedGpts(smat) = InterpolatedGpts(meas[1])
        /\ InterpolatedGpts(meas[1]) =
              << BuilderGpts(smat)[1] \div smat.interpolation[1],
                 BuilderGpts(smat)[2] \div smat.interpolation[2] >>

(***************************************************************************)
(* SpecArray: the normalization of derived arrays                          *)
(***************************************************************************)
\* C26: whatever sequence of operations has been applied, the array a call
\* returns reports the normalization of its receiver, and so the
\* normalization the first array was created with
C26_NormalizationPreserved ==
    (pc = "returned" /\ out # <<>>) =>
        /\ out[1].normalization = meas[1].normalization
        /\ out[1].normalization = batches[1].normalization

(***************************************************************************)
(* SpecScan: len() and copy() of a scan                                    *)
(***************************************************************************)
\* LineScan(start, end, gpts=gpts, margin=margin, endpoint=endpoint)
LineScanWithMargin(start, end, gpts, margin, endpoint) ==
    [LineScan(start, end, gpts, endpoint) EXCEPT !.margin = margin]

\* len(scan.get_positions()): the first axis of the (gpts[0], gpts[1], 2)
\* array of a grid scan and of the (gpts, 2) array of a line scan; a custom
\* scan returns the list [self._positions] of one array
LenGetPositions(s) ==
    CASE s.kind = "grid" -> s.gpts[1]
      [] s.kind = "custom" -> 1
      [] s.kind = "line" -> s.gpts[1]

\* AbstractScan.num_positions, which __len__ returns
num_positions(s) == LenGetPositions(s)

\* copy(scan), that is scan.__copy__(): a grid scan from start, end, gpts
\* and the endpoints; `pass`, so None, for a custom scan; a line scan from
\* start, end, gpts and endpoint, its margin left to the default
copy_scan(s) ==
    CASE s.kind = "grid" -> GridScan(s.start, s.end, s.gpts, s.endpoint)
      [] s.kind = "custom" -> None
      [] s.kind = "line" -> LineScan(s.start, s.end, s.gpts, <<s.endpoint[1]>>)

MarginChoices == {0, 1}

ScanObjects ==
    GridScansWith(BOOLEAN \X BOOLEAN) \cup CustomScans \cup StackedCustomScans
    \cup {LineScanWithMargin(<<0, 0>>, <<0, 2 * n>>, <<n>>, margin, <<endpoint>>) :
             n \in 2..MaxScanGpts, margin \in MarginChoices, endpoint \in BOOLEAN}

\* out is a 1-tuple with what the call returned
InitScan ==
    /\ smat = None
    /\ scan \in ScanObjects
    /\ args = [path |-> "scan_object"]
    /\ pc = "call"
    /\ batches = <<>>
    /\ meas = <<>>
    /\ hist = NoHistory
    /\ out = <<>>

\* len(scan)
CallLen ==
    /\ pc \in {"call", "copied"}
    /\ out' = <<num_positions(scan)>>
    /\ pc' = "len"
    /\ UNCHANGED <<smat, scan, args, batches, meas, hist>>

\* scan.copy()
CallCopy ==
    /\ pc \in {"call", "len"}
    /\ out' = <<copy_scan(scan)>>
    /\ pc' = "copied"
    /\ UNCHANGED <<smat, scan, args, batches, meas, hist>>

NextScan ==
    \/ CallLen
    \/ CallCopy

SpecScan == InitScan /\ [][NextScan]_vars

\* C27: len(scan) is the product of scan.shape, for every scan variant
C27_LenIsShapeProduct ==
    pc = "len" => out[1] = Prod(ScanShape(scan))

\* C28: scan.copy() returns a scan of the same variant with the same start,
\* end, shape, endpoint and margin, or the same list of positions, and so
\* with the same positions
C28_CopyDescribesSameScan ==
    pc = "copied" =>
        /\ out[1] # None
        /\ out[1] = scan
        /\ ScanShape(out[1]) = ScanShape(scan)
        /\ GetPositions(out[1]) = GetPositions(scan)

(***************************************************************************)
(* SpecArray: the receiver of interpolate_full                             *)
(***************************************************************************)
\* C29: after a call of interpolate_full, whether it raised or returned, the
\* receiver is as it was before the call, in its array and in everything
\* else; what a successful call returns is another array
C29_ReceiverUnchanged ==
    args.op = "interpolate_full" =>
        /\ smat = meas[1]
        /\ pc = "returned" => out[1] # smat

(***************************************************************************)
(* SpecMinimumCrop: _minimum_crop and the per-position crop of _reduce     *)
(***************************************************************************)
\* smat is the S-matrix array, scan the scan whose positions are reduced in
\* one batch, meas what _minimum_crop returned, out the window of grid
\* points cut out for every position
InitMinimumCrop ==
    /\ smat \in {s \in BuiltSMatrices : s.partitions = None}
    /\ scan \in GridScansWith({<<FALSE, FALSE>>, <<TRUE, TRUE>>}) \cup CustomScans
    /\ args = [path |-> "_reduce"]
    /\ pc = "call"
    /\ batches = <<>>
    /\ meas = None
    /\ hist = NoHistory
    /\ out = <<>>

\* line 177: _minimum_crop(offset_positions, sampling, interpolated_gpts)
CallMinimumCrop ==
    /\ pc = "call"
    /\ meas' = MinimumCrop(OffsetPositions(smat, GetPositions(scan)), smat.sampling,
                           InterpolatedGpts(smat))
    /\ pc' = "cropped"
    /\ UNCHANGED <<smat, scan, args, batches, hist, out>>

\* lines 179-186: the array cropped to the box, then the window of every
\* position cut out of it
BatchCrop ==
    /\ pc = "cropped"
    /\ out' = [idx \in DOMAIN meas.corners |->
                  batch_crop_2d(wrapped_crop_2d(smat.array, smat.gpts, meas.crop_corner, meas.size),
                                meas.size, meas.corners[idx], InterpolatedGpts(smat))]
    /\ pc' = "done"
    /\ UNCHANGED <<smat, scan, args, batches, meas, hist>>

NextMinimumCrop ==
    \/ CallMinimumCrop
    \/ BatchCrop

SpecMinimumCrop == InitMinimumCrop /\ [][NextMinimumCrop]_vars

\* C30: what _minimum_crop returned has, on both axes, every relative corner
\* c with 0 <= c and c + window <= size, a size of at least the window and
\* some corner equal to 0; and every grid point of every window cut out
\* afterwards lies inside the cropped array
C30_WindowsInsideBox ==
    /\ pc \in {"cropped", "done"} =>
          \A a \in 1..2 :
              /\ \A idx \in DOMAIN meas.corners :
                    /\ 0 <= meas.corners[idx][a]
                    /\ meas.corners[idx][a] + InterpolatedGpts(smat)[a] <= meas.size[a]
              /\ meas.size[a] >= InterpolatedGpts(smat)[a]
              /\ \E idx \in DOMAIN meas.corners : meas.corners[idx][a] = 0
    /\ pc = "done" =>
          \A idx \in DOMAIN out : \A at \in DOMAIN out[idx] : out[idx][at] # -1

\* the windows of several positions with different corners have been cut out
\* of a box larger than one window
C30_Witness ==
    /\ pc = "done"
    /\ Cardinality(DOMAIN meas.corners) > 1
    /\ \E idx \in DOMAIN meas.corners : meas.corners[idx] # <<0, 0>>
    /\ meas.size[1] > InterpolatedGpts(smat)[1]
    /\ smat.interpolation # <<1, 1>>

====
